---- MODULE Spec2Model ----
(***************************************************************************)
(* claude-intercept (src/src/index.ts): the telemetry queue (axiomQueue,   *)
(* queueAxiom, flushAxiom, ensureAxiomDataset) and the request pipeline    *)
(* (the fetch handler of Bun.serve, captureResponseBody, captureSSE).      *)
(*                                                                         *)
(* JavaScript runs one handler at a time: a step of the model is the code  *)
(* that runs between two awaits.                                           *)
(***************************************************************************)
EXTENDS Integers, Sequences, FiniteSets, TLC

\* ------------------------------------------------------------------ bounds
MaxBatchSize == 3      \* AXIOM_BATCH_SIZE is drawn from 1..MaxBatchSize
MaxLog == 4            \* log calls made by the callers of QueueSpec
MaxReq == 1            \* inbound requests of Spec
MaxTools == 1          \* entries of the tools array of a request payload
MaxFrames == 1         \* SSE frames of one response stream
MaxBytes == 3          \* bytes of a response body that is teed
MaxText == 5           \* symbols of an event stream of CR, LF, space and a
MaxLines == 3          \* lines of a frame of an event stream made of fields
MaxStreamFrames == 3   \* frames of an event stream that reports usage
MaxCreates == 2        \* create requests counted between two not-found answers
MaxDurationMs == 10002 \* latencyBucket is called with 0..MaxDurationMs

VARIABLES
  AXIOM_ENABLED,              \* AXIOM_TOKEN && AXIOM_DATASET
  AXIOM_BATCH_SIZE,
  AXIOM_AUTO_CREATE_DATASET,
  ARCHIVE_ENABLED,
  req,                        \* the fetch handler call of each inbound request
  axiomQueue,                 \* records waiting for an export
  axiomFlushTimer,            \* the timer handle is not null
  axiomFlushInFlight,
  axiomDatasetEnsured,
  pendingTimers,              \* setTimeout callbacks scheduled and not yet run
  flights,                    \* flushAxiom calls suspended at an await
  exported,                   \* records of the batches the sink accepted, in order
  enqueued,                   \* every record pushed on axiomQueue, in order
  logged,                     \* number of log calls so far
  exportFailed,               \* some export attempt has failed
  last,                       \* what the last step did
  call,                       \* one call of a pure function: its argument and result
  tee,                        \* response.body.tee(): the source and its two branches
  sse                         \* one captureSSE task reading a stream of text

queueVars == <<axiomQueue, axiomFlushTimer, axiomFlushInFlight, axiomDatasetEnsured,
               pendingTimers, flights, exported, enqueued, logged, exportFailed>>
configVars == <<AXIOM_ENABLED, AXIOM_BATCH_SIZE, AXIOM_AUTO_CREATE_DATASET, ARCHIVE_ENABLED>>
compVars == <<call, tee, sse>>
vars == <<configVars, queueVars, req, last, compVars>>

Min(a, b) == IF a <= b THEN a ELSE b

\* SpliceFront with a fault: splice(0) removes and returns every element
SpliceFrontWholeQueue(q, n) == q

\* Array.prototype.splice(0, n): the removed front, and what stays
SpliceFront(q, n) == SubSeq(q, 1, Min(n, Len(q)))
SpliceRest(q, n) == SubSeq(q, Min(n, Len(q)) + 1, Len(q))

\* Unshift with a fault: the batch goes to the back (push instead of unshift)
UnshiftAtBack(q, batch) == q \o batch

\* Array.prototype.unshift(...batch)
Unshift(q, batch) == batch \o q

\* the queue's state as one value, so that a handler can call log several times
AxState == [queue |-> axiomQueue, timer |-> axiomFlushTimer,
            inFlight |-> axiomFlushInFlight, ensured |-> axiomDatasetEnsured,
            timers |-> pendingTimers, flights |-> flights, exported |-> exported,
            enqueued |-> enqueued, logged |-> logged, failed |-> exportFailed,
            sizeTrigger |-> FALSE, timerBefore |-> FALSE, idleBefore |-> FALSE,
            late |-> FALSE, createSent |-> FALSE, creates |-> last.creates,
            answer |-> 0]

EmptyAx == [queue |-> <<>>, timer |-> FALSE, inFlight |-> FALSE, ensured |-> FALSE,
            timers |-> 0, flights |-> <<>>, exported |-> <<>>, enqueued |-> <<>>,
            logged |-> 0, failed |-> FALSE, sizeTrigger |-> FALSE, timerBefore |-> FALSE,
            idleBefore |-> FALSE, late |-> FALSE, createSent |-> FALSE, creates |-> 0,
            answer |-> 0]

\* EnsureAxiomDatasetStart with a fault: the axiomDatasetEnsured test is missing
EnsureAxiomDatasetStartNoMemo(s, enabled, autoCreate) ==
  IF ~enabled THEN "ensured"
  ELSE IF ~autoCreate THEN "ensured"
  ELSE "create"

\* ensureAxiomDataset up to its first await: "create" when the create request is
\* sent, "ensured" when it returns without a request
EnsureAxiomDatasetStart(s, enabled, autoCreate) ==
  IF ~enabled THEN "ensured"
  ELSE IF s.ensured THEN "ensured"
  ELSE IF ~autoCreate THEN "ensured"
  ELSE "create"

\* FlushAxiom with a fault: the axiomFlushInFlight test is missing from the guard
FlushAxiomNoInFlightGuard(s, enabled, size, autoCreate) ==
  IF ~enabled \/ Len(s.queue) = 0 THEN s
  ELSE [s EXCEPT !.inFlight = TRUE,
                 !.queue = SpliceRest(s.queue, size),
                 !.flights = Append(@, [batch |-> SpliceFront(s.queue, size),
                                        pc |-> EnsureAxiomDatasetStart(s, enabled, autoCreate),
                                        start |-> Len(s.enqueued)]),
                 !.createSent = EnsureAxiomDatasetStart(s, enabled, autoCreate) = "create",
                 !.creates = IF EnsureAxiomDatasetStart(s, enabled, autoCreate) = "create"
                               THEN Min(@ + 1, MaxCreates) ELSE @]

\* FlushAxiom with a fault: the test of the queue's length is missing from the guard
FlushAxiomNoEmptyTest(s, enabled, size, autoCreate) ==
  IF ~enabled \/ s.inFlight THEN s
  ELSE [s EXCEPT !.inFlight = TRUE,
                 !.queue = SpliceRest(s.queue, size),
                 !.flights = Append(@, [batch |-> SpliceFront(s.queue, size),
                                        pc |-> EnsureAxiomDatasetStart(s, enabled, autoCreate),
                                        start |-> Len(s.enqueued)]),
                 !.createSent = EnsureAxiomDatasetStart(s, enabled, autoCreate) = "create",
                 !.creates = IF EnsureAxiomDatasetStart(s, enabled, autoCreate) = "create"
                               THEN Min(@ + 1, MaxCreates) ELSE @]

\* flushAxiom up to its first await (await ensureAxiomDataset())
FlushAxiom(s, enabled, size, autoCreate) ==
  IF ~enabled \/ s.inFlight \/ Len(s.queue) = 0 THEN s
  ELSE [s EXCEPT !.inFlight = TRUE,
                 !.queue = SpliceRest(s.queue, size),
                 !.flights = Append(@, [batch |-> SpliceFront(s.queue, size),
                                        pc |-> EnsureAxiomDatasetStart(s, enabled, autoCreate),
                                        start |-> Len(s.enqueued)]),
                 !.createSent = EnsureAxiomDatasetStart(s, enabled, autoCreate) = "create",
                 !.creates = IF EnsureAxiomDatasetStart(s, enabled, autoCreate) = "create"
                               THEN Min(@ + 1, MaxCreates) ELSE @]

\* an event with no field but @timestamp, trace.id and event.action
NoFields == <<>>

\* the fields normalizeForAxiom copies: those of every event, and those of the
\* event's action
KeptFields(action) ==
  {"log.level", "event.outcome", "request.category", "http.request.method",
   "url.path", "latency.ms", "http.response.status_code"}
  \cup CASE action = "request_received" ->
              {"anthropic.model", "anthropic.tools.names", "prompt.preview"}
         [] action = "request_tool" ->
              {"tool.name", "tool.description", "tool.input_schema"}
         [] action = "response_body" ->
              {"http.response.body", "http.response.body.bytes",
               "http.response.body.content_type"}
         [] action = "sse_event" ->
              {"sse.event", "sse.id", "sse.data", "sse.frame", "sse.data.bytes"}
         [] action \in {"request_rollup", "sse_summary"} ->
              {"usage.input_tokens", "usage.output_tokens", "sse.event_count",
               "sse.type_counts"}
         [] OTHER -> {}

Restrict(f, S) ==
  IF DOMAIN f \cap S = {} THEN NoFields ELSE [k \in DOMAIN f \cap S |-> f[k]]

\* normalizeForAxiom keeps @timestamp, trace.id and event.action of every event,
\* and of its other fields those of KeptFields
NormalizeForAxiom(event) ==
  [ts |-> event.ts, trace |-> event.trace, action |-> event.action,
   fields |-> Restrict(event.fields, KeptFields(event.action))]

\* QueueAxiom with a fault: > instead of >= in the batch-size test
QueueAxiomOffByOne(s, event, enabled, size, autoCreate) ==
  IF ~enabled THEN s
  ELSE LET rec == NormalizeForAxiom(event)
           p == [s EXCEPT !.queue = Append(@, rec), !.enqueued = Append(@, rec)]
       IN IF Len(p.queue) > size
            THEN [FlushAxiom(p, enabled, size, autoCreate) EXCEPT
                    !.sizeTrigger = TRUE, !.timerBefore = s.timer,
                    !.idleBefore = ~s.inFlight]
          ELSE IF p.timer THEN p
          ELSE [p EXCEPT !.timer = TRUE, !.timers = @ + 1]

\* QueueAxiom with a fault: the return after the size-driven flush is missing
QueueAxiomNoReturn(s, event, enabled, size, autoCreate) ==
  IF ~enabled THEN s
  ELSE LET rec == NormalizeForAxiom(event)
           p == [s EXCEPT !.queue = Append(@, rec), !.enqueued = Append(@, rec)]
           f == IF Len(p.queue) >= size
                  THEN [FlushAxiom(p, enabled, size, autoCreate) EXCEPT
                          !.sizeTrigger = TRUE, !.timerBefore = s.timer,
                          !.idleBefore = ~s.inFlight]
                  ELSE p
       IN IF f.timer THEN f
          ELSE [f EXCEPT !.timer = TRUE, !.timers = @ + 1]

\* QueueAxiom with a fault: the test of axiomFlushTimer is missing
QueueAxiomNoTimerTest(s, event, enabled, size, autoCreate) ==
  IF ~enabled THEN s
  ELSE LET rec == NormalizeForAxiom(event)
           p == [s EXCEPT !.queue = Append(@, rec), !.enqueued = Append(@, rec)]
       IN IF Len(p.queue) >= size
            THEN [FlushAxiom(p, enabled, size, autoCreate) EXCEPT
                    !.sizeTrigger = TRUE, !.timerBefore = s.timer,
                    !.idleBefore = ~s.inFlight]
          ELSE [p EXCEPT !.timer = TRUE, !.timers = @ + 1]

\* QueueAxiom with a fault: the test of AXIOM_ENABLED is missing
QueueAxiomNoEnabledTest(s, event, enabled, size, autoCreate) ==
  LET rec == NormalizeForAxiom(event)
      p == [s EXCEPT !.queue = Append(@, rec), !.enqueued = Append(@, rec)]
  IN IF Len(p.queue) >= size
       THEN [FlushAxiom(p, enabled, size, autoCreate) EXCEPT
               !.sizeTrigger = TRUE, !.timerBefore = s.timer,
               !.idleBefore = ~s.inFlight]
     ELSE IF p.timer THEN p
     ELSE [p EXCEPT !.timer = TRUE, !.timers = @ + 1]

QueueAxiom(s, event, enabled, size, autoCreate) ==
  IF ~enabled THEN s
  ELSE LET rec == NormalizeForAxiom(event)
           p == [s EXCEPT !.queue = Append(@, rec), !.enqueued = Append(@, rec)]
       IN IF Len(p.queue) >= size
            THEN [FlushAxiom(p, enabled, size, autoCreate) EXCEPT
                    !.sizeTrigger = TRUE, !.timerBefore = s.timer,
                    !.idleBefore = ~s.inFlight]
          ELSE IF p.timer THEN p
          ELSE [p EXCEPT !.timer = TRUE, !.timers = @ + 1]

\* log: stamps the event (@timestamp) and queues it
LogWith(s, event, enabled, size, autoCreate) ==
  QueueAxiom([s EXCEPT !.logged = @ + 1],
             [ts |-> s.logged + 1, trace |-> event.trace, action |-> event.action,
              fields |-> IF "fields" \in DOMAIN event THEN event.fields ELSE NoFields],
             enabled, size, autoCreate)

Log(s, event) ==
  LogWith(s, event, AXIOM_ENABLED, AXIOM_BATCH_SIZE, AXIOM_AUTO_CREATE_DATASET)

\* FlushFinish with a fault: no re-flush
FlushFinishNoDrain(s) == [s EXCEPT !.inFlight = FALSE]

\* FlushFinish with a fault: the re-flush waits for a full batch
FlushFinishDrainsFullBatchOnly(s) ==
  LET p == [s EXCEPT !.inFlight = FALSE]
  IN IF Len(p.queue) >= AXIOM_BATCH_SIZE
       THEN FlushAxiom(p, AXIOM_ENABLED, AXIOM_BATCH_SIZE, AXIOM_AUTO_CREATE_DATASET)
       ELSE p

\* the end of flushAxiom: finally { axiomFlushInFlight = false }, then the
\* re-flush when the queue is not empty
FlushFinish(s) ==
  LET p == [s EXCEPT !.inFlight = FALSE]
  IN IF Len(p.queue) > 0
       THEN FlushAxiom(p, AXIOM_ENABLED, AXIOM_BATCH_SIZE, AXIOM_AUTO_CREATE_DATASET)
       ELSE p

RemoveAt(q, i) == SubSeq(q, 1, i - 1) \o SubSeq(q, i + 1, Len(q))

\* FlushFailed with a fault: the batch is not put back
FlushFailedDropsBatch(s, i, notFound) ==
  FlushFinish([s EXCEPT !.ensured = IF notFound THEN FALSE ELSE @,
                        !.creates = IF notFound THEN 0 ELSE @,
                        !.flights = RemoveAt(@, i),
                        !.failed = TRUE,
                        !.late = Len(s.enqueued) > s.flights[i].start])

\* FlushFailed with a fault: a 404 does not clear axiomDatasetEnsured
FlushFailedKeepsEnsured(s, i, notFound) ==
  FlushFinish([s EXCEPT !.queue = Unshift(@, s.flights[i].batch),
                        !.creates = IF notFound THEN 0 ELSE @,
                        !.flights = RemoveAt(@, i),
                        !.failed = TRUE,
                        !.late = Len(s.enqueued) > s.flights[i].start])

\* the catch block and the !response.ok branch: the batch goes back to the front
FlushFailed(s, i, notFound) ==
  FlushFinish([s EXCEPT !.queue = Unshift(@, s.flights[i].batch),
                        !.ensured = IF notFound THEN FALSE ELSE @,
                        !.creates = IF notFound THEN 0 ELSE @,
                        !.flights = RemoveAt(@, i),
                        !.failed = TRUE,
                        !.late = Len(s.enqueued) > s.flights[i].start])

FlushSucceeded(s, i) ==
  FlushFinish([s EXCEPT !.exported = @ \o s.flights[i].batch,
                        !.flights = RemoveAt(@, i)])

\* CreateAnswered with a fault: the status 409 is not excepted
CreateAnsweredConflictThrows(s, i, status) ==
  IF ~(status \in 200..299)
    THEN FlushFailed([s EXCEPT !.answer = status], i, FALSE)
    ELSE [s EXCEPT !.ensured = TRUE, !.flights[i].pc = "ensured", !.answer = status]

\* CreateAnswered with a fault: the status of the answer is not looked at
CreateAnsweredIgnoresStatus(s, i, status) ==
  [s EXCEPT !.ensured = TRUE, !.flights[i].pc = "ensured", !.answer = status]

\* ensureAxiomDataset after its await, the create request answered with this
\* status: it throws (into the catch block of flushAxiom) when the answer is not
\* ok and not 409, and sets axiomDatasetEnsured otherwise
CreateAnswered(s, i, status) ==
  IF ~(status \in 200..299) /\ status # 409
    THEN FlushFailed([s EXCEPT !.answer = status], i, FALSE)
    ELSE [s EXCEPT !.ensured = TRUE, !.flights[i].pc = "ensured", !.answer = status]

SetAx(s) ==
  /\ axiomQueue' = s.queue
  /\ axiomFlushTimer' = s.timer
  /\ axiomFlushInFlight' = s.inFlight
  /\ axiomDatasetEnsured' = s.ensured
  /\ pendingTimers' = s.timers
  /\ flights' = s.flights
  /\ exported' = s.exported
  /\ enqueued' = s.enqueued
  /\ logged' = s.logged
  /\ exportFailed' = s.failed

\* what a step did, for the states that follow it: the operation, whether an
\* enqueue of the step reached the batch size (and, at that enqueue, whether a
\* timer was pending and no export in flight), whether a batch was requeued in
\* front of records enqueued during its export, whether the create request was
\* sent, how many create requests were sent since the last ingest answer of
\* 404 (counted up to MaxCreates), and the status the sink answered with (0 when
\* the step is no answer, or the request was rejected)
LastOf(op, s) ==
  [op |-> op, sizeTrigger |-> s.sizeTrigger, timerBefore |-> s.timerBefore,
   idleBefore |-> s.idleBefore, late |-> s.late, busy |-> axiomFlushInFlight,
   createSent |-> s.createSent, creates |-> s.creates, answer |-> s.answer]

\* ------------------------------------------------------- request pipeline

Requests == 1..MaxReq

\* one call of the fetch handler: where the handler is suspended (pc), where its
\* detached inspection task is suspended (inspect), and what it has done
NewRequest ==
  [pc |-> "idle",            \* idle, archive_body, archive_meta, fetch,
                             \* archive_response_meta, archive_error, done
   tools |-> 0,              \* object entries of requestJson.tools
   reply |-> "none",         \* none, rejected, no_body, plain, sse
   response |-> "none",      \* none, upstream, bad_gateway, server_error
   upstreamCalls |-> 0,
   inspect |-> "none",       \* none, reading, archive_response_body, sse_reading,
                             \* sse_append, done, failed
   frames |-> 0,             \* sequence: sse_event records so far
   chunkLeft |-> 0,          \* frames of the current chunk not yet recorded
   emitted |-> <<>>,         \* event.action of every log call of this request
   archiveFailed |-> FALSE]  \* an archiveWrite or archiveAppend has rejected

\* the log call at module top level names no trace.id
NoTrace == 0

\* LogAll with a fault: request_rollup is logged with no trace.id
RECURSIVE LogAllRollupUntagged(_, _, _)
LogAllRollupUntagged(s, r, actions) ==
  IF actions = <<>> THEN s
  ELSE LogAllRollupUntagged(
         Log(s, [trace |-> IF Head(actions) = "request_rollup" THEN NoTrace ELSE r,
                 action |-> Head(actions)]),
         r, Tail(actions))

RECURSIVE LogAll(_, _, _)
LogAll(s, r, actions) ==
  IF actions = <<>> THEN s
  ELSE LogAll(Log(s, [trace |-> r, action |-> Head(actions)]), r, Tail(actions))

RECURSIVE Repeat(_, _)
Repeat(x, n) == IF n = 0 THEN <<>> ELSE <<x>> \o Repeat(x, n - 1)

\* Emit with a fault: a log call made after an export has failed throws, and
\* the handler rejects
EmitRaisesExportFailure(r, actions, nr) ==
  /\ LET s == LogAll(AxState, r, actions)
     IN SetAx(s) /\ last' = LastOf("request", s)
  /\ req' = [req EXCEPT ![r] =
               IF exportFailed /\ actions # <<>>
                 THEN [nr EXCEPT !.emitted = @ \o actions, !.pc = "done",
                                 !.response = "server_error"]
                 ELSE [nr EXCEPT !.emitted = @ \o actions]]
  /\ UNCHANGED <<configVars, compVars>>

\* the handler of request r logs these events, in this order, and goes on as nr
Emit(r, actions, nr) ==
  /\ LET s == LogAll(AxState, r, actions)
     IN SetAx(s) /\ last' = LastOf("request", s)
  /\ req' = [req EXCEPT ![r] = [nr EXCEPT !.emitted = @ \o actions]]
  /\ UNCHANGED <<configVars, compVars>>

\* the catch block of the handler: the error record, the failed rollup, then
\* await archiveWrite(error.txt)
CatchBlock(r, nr) ==
  Emit(r, <<"proxy_request", "request_rollup">>, [nr EXCEPT !.pc = "archive_error"])

\* --------------------------------------------------------- pure functions

\* a string is the sequence of its characters
UpperCase == <<"A", "B", "C", "D", "E", "F", "G", "H", "I", "J", "K", "L", "M", "N", "O", "P", "Q", "R", "S", "T", "U", "V", "W", "X", "Y", "Z">>
LowerCase == <<"a", "b", "c", "d", "e", "f", "g", "h", "i", "j", "k", "l", "m", "n", "o", "p", "q", "r", "s", "t", "u", "v", "w", "x", "y", "z">>

\* String.prototype.toLowerCase
ToLowerChar(c) ==
  IF \E i \in DOMAIN UpperCase : UpperCase[i] = c
    THEN LowerCase[CHOOSE i \in DOMAIN UpperCase : UpperCase[i] = c]
    ELSE c
ToLowerCase(str) == [i \in DOMAIN str |-> ToLowerChar(str[i])]

SENSITIVE_HEADERS ==
  { <<"a", "u", "t", "h", "o", "r", "i", "z", "a", "t", "i", "o", "n">>,
    <<"p", "r", "o", "x", "y", "-", "a", "u", "t", "h", "o", "r", "i", "z", "a", "t", "i", "o", "n">>,
    <<"x", "-", "a", "p", "i", "-", "k", "e", "y">>,
    <<"c", "o", "o", "k", "i", "e">>,
    <<"s", "e", "t", "-", "c", "o", "o", "k", "i", "e">> }

\* RedactHeaderValue with a fault: the name is looked up as it is written
RedactHeaderValueCaseSensitive(name, value) ==
  IF name \in SENSITIVE_HEADERS THEN "[REDACTED]" ELSE value

RedactHeaderValue(name, value) ==
  IF ToLowerCase(name) \in SENSITIVE_HEADERS THEN "[REDACTED]" ELSE value

\* an exception thrown and not caught
TypeError == [t |-> "throw"]

\* a URL: its origin, the segments of its path ("/v1/messages" is
\* <<"v1", "messages">>, "//h/x" is <<"", "h", "x">>) and its query string

\* new URL(pathname + search, base), pathname beginning with "/": two leading
\* slashes make a scheme-relative reference whose first segment is the host
\* (TypeError when it is empty); otherwise the path replaces the path of base
NewURL(path, search, base) ==
  IF Len(path) >= 2 /\ path[1] = ""
    THEN IF path[2] = "" THEN TypeError
         ELSE [origin |-> path[2], path |-> SubSeq(path, 3, Len(path)), search |-> search]
    ELSE [origin |-> base.origin, path |-> path, search |-> search]

\* toUpstreamUrl: incoming is the parsed request URL
ToUpstreamUrl(incoming, upstreamOrigin) ==
  NewURL(incoming.path, incoming.search, upstreamOrigin)

\* Headers.prototype.set
HeadersSet(headers, name, value) ==
  [n \in DOMAIN headers \cup {name} |-> IF n = name THEN value ELSE headers[n]]

\* the fetch handler up to the upstream fetch: what is sent upstream, and the
\* trace.id of the records of the request
UpstreamRequest(request, upstreamOrigin, requestId) ==
  LET upstreamUrl == ToUpstreamUrl(request.url, upstreamOrigin)
  IN IF upstreamUrl = TypeError THEN TypeError
     ELSE [url |-> upstreamUrl,
           method |-> request.method,
           headers |-> HeadersSet(HeadersSet(HeadersSet(request.headers,
                         "host", upstreamUrl.origin),
                         "x-request-id", requestId),
                         "accept-encoding", "identity"),
           body |-> request.body,
           redirect |-> "manual",
           trace |-> requestId]

\* JSON values as JavaScript sees them, each tagged with its type; the value of
\* a string is the sequence of its characters
Undefined == [t |-> "undefined"]
Null == [t |-> "null"]
Bool(b) == [t |-> "bool", v |-> b]
Num(n) == [t |-> "num", v |-> n]
Str(s) == [t |-> "str", v |-> s]
Arr(a) == [t |-> "arr", v |-> a]
Obj(f) == [t |-> "obj", v |-> f]

\* JavaScript truthiness: !x is ~Truthy(x)
Truthy(x) ==
  CASE x.t \in {"undefined", "null"} -> FALSE
    [] x.t = "bool" -> x.v
    [] x.t = "num" -> x.v # 0
    [] x.t = "str" -> x.v # <<>>
    [] OTHER -> TRUE

\* typeof x === "object"
TypeofObject(x) == x.t \in {"obj", "arr", "null"}
\* typeof x === "string", Array.isArray(x)
TypeofString(x) == x.t = "str"
IsArray(x) == x.t = "arr"

\* x.key (key is none of the built-in properties): a TypeError on null and
\* undefined, undefined on a value without the property
Get(x, key) ==
  IF x.t \in {"undefined", "null"} THEN TypeError
  ELSE IF x.t = "obj" /\ key \in DOMAIN x.v THEN x.v[key]
  ELSE Undefined

\* x?.key
OptGet(x, key) == IF x.t \in {"undefined", "null"} THEN Undefined ELSE Get(x, key)

\* x === "s"
IsStr(x, s) == x.t = "str" /\ x.v = s

\* isTextLike, on the content types drawn
IsTextLike(contentType) ==
  contentType \in {"text/plain", "application/json", "application/xml",
                   "application/x-www-form-urlencoded", "text/javascript"}

\* decodeBody: body.bytes is "null", "empty" or "some"; body.text is what
\* TextDecoder makes of the bytes
DecodeBody(body) ==
  IF body.bytes \in {"null", "empty"} THEN Null
  ELSE IF IsTextLike(body.contentType) THEN [t |-> "payload", encoding |-> "utf8", text |-> body.text]
  ELSE [t |-> "payload", encoding |-> "base64"]

\* JSON.parse: text.json says whether the text is JSON, text.value what it denotes
JSONParse(text) == IF text.json THEN text.value ELSE TypeError

\* parsePayloadJson: the catch turns a failed parse into null
ParsePayloadJson(payload) ==
  IF payload.t = "null" THEN Null
  ELSE IF payload.encoding # "utf8" THEN Null
  ELSE IF JSONParse(payload.text).t = "throw" THEN Null
  ELSE JSONParse(payload.text)

Whitespace == {" ", "\n", "\r", "\t"}

\* text.replace(/\s+/g, " "): of a run of white space the last character is
\* kept, as a space
CollapseWhitespace(text) ==
  LET kept == SelectSeq([i \in DOMAIN text |-> i],
                        LAMBDA i : \/ text[i] \notin Whitespace
                                   \/ i = Len(text)
                                   \/ text[i + 1] \notin Whitespace)
  IN [k \in DOMAIN kept |-> IF text[kept[k]] \in Whitespace THEN " " ELSE text[kept[k]]]

USER == <<"u", "s", "e", "r">>
TEXT == <<"t", "e", "x", "t">>

\* IsUserMessage with a fault: the test of !m is missing
IsUserMessageNoNullTest(m) ==
  IF ~TypeofObject(m) THEN "false"
  ELSE IF Get(m, "role").t = "throw" THEN "throw"
  ELSE IF IsStr(Get(m, "role"), USER) THEN "true" ELSE "false"

\* the callback of parsed.messages.find: "true", "false", or "throw" when it
\* throws
IsUserMessage(m) ==
  IF ~Truthy(m) \/ ~TypeofObject(m) THEN "false"
  ELSE IF Get(m, "role").t = "throw" THEN "throw"
  ELSE IF IsStr(Get(m, "role"), USER) THEN "true" ELSE "false"

\* the callback of firstUser.content.find
IsTextBlock(c) ==
  IF ~Truthy(c) \/ ~TypeofObject(c) THEN "false"
  ELSE IF Get(c, "type").t = "throw" THEN "throw"
  ELSE IF IsStr(Get(c, "type"), TEXT) THEN "true" ELSE "false"

\* Array.prototype.find with the callback IsUserMessage: the first element the
\* callback accepts, undefined when there is none, the exception of the callback
RECURSIVE FindUserMessage(_)
FindUserMessage(a) ==
  IF a = <<>> THEN Undefined
  ELSE IF IsUserMessage(Head(a)) = "throw" THEN TypeError
  ELSE IF IsUserMessage(Head(a)) = "true" THEN Head(a)
  ELSE FindUserMessage(Tail(a))

RECURSIVE FindTextBlock(_)
FindTextBlock(a) ==
  IF a = <<>> THEN Undefined
  ELSE IF IsTextBlock(Head(a)) = "throw" THEN TypeError
  ELSE IF IsTextBlock(Head(a)) = "true" THEN Head(a)
  ELSE FindTextBlock(Tail(a))

\* parsed.tools.map(t => t && typeof t === "object" ? t.name : undefined)
\*             .filter(n => typeof n === "string")
RECURSIVE ToolNames(_)
ToolNames(a) ==
  IF a = <<>> THEN <<>>
  ELSE LET n == IF Truthy(Head(a)) /\ TypeofObject(Head(a))
                  THEN Get(Head(a), "name") ELSE Undefined
       IN (IF TypeofString(n) THEN <<n>> ELSE <<>>) \o ToolNames(Tail(a))

\* extractRequestInsights: the object out (v: a function from its keys), or
\* TypeError when an exception escapes
ExtractRequestInsights(parsed) ==
  IF ~Truthy(parsed) THEN [t |-> "out", v |-> [k \in {} |-> Undefined]]
  ELSE
    LET out0 == [k \in {"anthropic.model", "anthropic.stream", "anthropic.max_tokens",
                        "anthropic.temperature"} |->
                   CASE k = "anthropic.model" -> Get(parsed, "model")
                     [] k = "anthropic.stream" -> Get(parsed, "stream")
                     [] k = "anthropic.max_tokens" -> Get(parsed, "max_tokens")
                     [] k = "anthropic.temperature" -> Get(parsed, "temperature")]
        metadata == Get(parsed, "metadata")
        out1 == IF Truthy(metadata) /\ TypeofObject(metadata)
                  THEN ("anthropic.user_id" :> Get(metadata, "user_id")) @@ out0
                  ELSE out0
        messages == Get(parsed, "messages")
        firstUser == IF IsArray(messages) THEN FindUserMessage(messages.v) ELSE Undefined
        content == IF firstUser.t # "throw" /\ Truthy(firstUser)
                     THEN Get(firstUser, "content") ELSE Undefined
        firstText == IF IsArray(content) THEN FindTextBlock(content.v) ELSE Undefined
        text == IF firstText.t # "throw" /\ Truthy(firstText)
                  THEN Get(firstText, "text") ELSE Undefined
        out2 == IF IsArray(messages)
                  THEN ("anthropic.messages.count" :> Num(Len(messages.v))) @@ out1
                  ELSE out1
        out3 == IF TypeofString(text)
                  THEN ("prompt.preview" :> Str(CollapseWhitespace(text.v))) @@ out2
                  ELSE out2
        system == Get(parsed, "system")
        out4 == IF IsArray(system)
                  THEN ("anthropic.system.count" :> Num(Len(system.v))) @@ out3
                  ELSE out3
        tools == Get(parsed, "tools")
        out5 == IF IsArray(tools)
                  THEN ("anthropic.tools.count" :> Num(Len(tools.v)))
                       @@ ("anthropic.tools.names" :> Arr(ToolNames(tools.v))) @@ out4
                  ELSE out4
    IN IF firstUser.t = "throw" \/ firstText.t = "throw" THEN TypeError
       ELSE [t |-> "out", v |-> out5]

\* pathname.startsWith("/v1/models"), on the paths drawn
StartsWithV1Models(pathname) == pathname \in {"/v1/models", "/v1/models/claude"}

\* classifyRequest
ClassifyRequest(pathname, parsed) ==
  IF pathname = "/v1/messages"
    THEN IF OptGet(parsed, "stream").t = "bool" /\ OptGet(parsed, "stream").v
           THEN "messages-stream" ELSE "messages"
  ELSE IF pathname = "/v1/messages/count_tokens" THEN "count-tokens"
  ELSE IF StartsWithV1Models(pathname) THEN "models"
  ELSE "other"

\* the fetch handler from decodeBody to classifyRequest
RequestInsights(body, pathname) ==
  LET requestPayload == DecodeBody(body)
      requestJson == ParsePayloadJson(requestPayload)
      requestInsights == ExtractRequestInsights(requestJson)
  IN IF requestInsights.t = "throw" THEN TypeError
     ELSE [t |-> "insights", requestJson |-> requestJson, insights |-> requestInsights.v,
           category |-> ClassifyRequest(pathname, requestJson)]

\* ToolRecords with a fault: tool.index counts the records, not the entries
RECURSIVE ToolRecordsIndexOfRecord(_, _)
ToolRecordsIndexOfRecord(a, index) ==
  IF a = <<>> THEN <<>>
  ELSE IF ~Truthy(Head(a)) \/ ~TypeofObject(Head(a))
    THEN ToolRecordsIndexOfRecord(Tail(a), index)
  ELSE LET tool == Head(a)
       IN <<[step |-> "log", action |-> "request_tool",
             fields |-> [k \in {"tool.index", "tool.name", "tool.description",
                                "tool.input_schema"} |->
                           CASE k = "tool.index" -> Num(index)
                             [] k = "tool.name" ->
                                  IF TypeofString(Get(tool, "name"))
                                    THEN Get(tool, "name") ELSE Null
                             [] k = "tool.description" ->
                                  IF TypeofString(Get(tool, "description"))
                                    THEN Get(tool, "description") ELSE Null
                             [] k = "tool.input_schema" -> Get(tool, "input_schema")]]>>
          \o ToolRecordsIndexOfRecord(Tail(a), index + 1)

\* the loop over requestJson.tools.entries(), from this index on: an entry that
\* is falsy or no object is skipped, every other is logged as request_tool
RECURSIVE ToolRecords(_, _)
ToolRecords(a, index) ==
  IF a = <<>> THEN <<>>
  ELSE IF ~Truthy(Head(a)) \/ ~TypeofObject(Head(a))
    THEN ToolRecords(Tail(a), index + 1)
  ELSE LET tool == Head(a)
       IN <<[step |-> "log", action |-> "request_tool",
             fields |-> [k \in {"tool.index", "tool.name", "tool.description",
                                "tool.input_schema"} |->
                           CASE k = "tool.index" -> Num(index)
                             [] k = "tool.name" ->
                                  IF TypeofString(Get(tool, "name"))
                                    THEN Get(tool, "name") ELSE Null
                             [] k = "tool.description" ->
                                  IF TypeofString(Get(tool, "description"))
                                    THEN Get(tool, "description") ELSE Null
                             [] k = "tool.input_schema" -> Get(tool, "input_schema")]]>>
          \o ToolRecords(Tail(a), index + 1)

\* the fetch handler from the request_received record to the upstream fetch:
\* its log calls, its awaited archive writes and the fetch, in order
RequestSteps(requestJson, requestInsights) ==
  <<[step |-> "log", action |-> "request_received", fields |-> requestInsights],
    [step |-> "archiveWrite", action |-> "request.body"],
    [step |-> "archiveWrite", action |-> "request.meta.json"]>>
  \o (IF Truthy(requestJson) /\ IsArray(Get(requestJson, "tools"))
        THEN ToolRecords(Get(requestJson, "tools").v, 0) ELSE <<>>)
  \o <<[step |-> "fetch", action |-> "upstream"]>>

\* ------------------------------------------------------ the SSE frame decoder

\* the text of an event stream is a sequence of symbols: the characters CR, LF,
\* space, colon and a, b, and, each taken as one symbol, the field prefixes,
\* some event names and some JSON texts
DataField == "data:"
EventField == "event:"
IdField == "id:"
MessageDelta == "message_delta"
Message == "message"
Ping == "ping"
JsonOut5 == "{\"usage\":{\"output_tokens\":5}}"
JsonIn7Out2 == "{\"usage\":{\"input_tokens\":7,\"output_tokens\":2}}"
JsonOut0 == "{\"usage\":{\"output_tokens\":0}}"
JsonUsageText == "{\"usage\":{\"output_tokens\":\"many\"}}"
JsonNoUsage == "{\"type\":\"message_delta\"}"
JsonNull == "null"

\* the number of bytes of a symbol (the text is ASCII: TextDecoder gives one
\* character for each byte)
SymbolBytes(sym) ==
  CASE sym = DataField -> 5
    [] sym = EventField -> 6
    [] sym = IdField -> 3
    [] sym = MessageDelta -> 13
    [] sym = Message -> 7
    [] sym = Ping -> 4
    [] sym = JsonOut5 -> 29
    [] sym = JsonIn7Out2 -> 46
    [] sym = JsonOut0 -> 29
    [] sym = JsonUsageText -> 34
    [] sym = JsonNoUsage -> 24
    [] sym = JsonNull -> 4
    [] OTHER -> 1

RECURSIVE ByteLength(_)
ByteLength(text) ==
  IF text = <<>> THEN 0 ELSE SymbolBytes(Head(text)) + ByteLength(Tail(text))

\* the symbol at index i of the text, "" beyond its end
At(text, i) == IF i \in DOMAIN text THEN text[i] ELSE ""

\* MatchBlankLine with a fault: the pattern is /\n\n/
MatchBlankLineLfOnly(text, i) ==
  IF At(text, i) = "\n" /\ At(text, i + 1) = "\n" THEN 2 ELSE 0

\* the length of the match of /\r?\n\r?\n/ that begins at index i, 0 when there
\* is none
MatchBlankLine(text, i) ==
  IF At(text, i) = "\r"
    THEN IF At(text, i + 1) # "\n" THEN 0
         ELSE IF At(text, i + 2) = "\r" /\ At(text, i + 3) = "\n" THEN 4
         ELSE IF At(text, i + 2) = "\n" THEN 3
         ELSE 0
  ELSE IF At(text, i) = "\n"
    THEN IF At(text, i + 1) = "\r" /\ At(text, i + 2) = "\n" THEN 3
         ELSE IF At(text, i + 1) = "\n" THEN 2
         ELSE 0
  ELSE 0

\* the length of the match of /\r?\n/ that begins at index i
MatchLineEnd(text, i) ==
  IF At(text, i) = "\r" /\ At(text, i + 1) = "\n" THEN 2
  ELSE IF At(text, i) = "\n" THEN 1
  ELSE 0

\* buffer.split(/\r?\n\r?\n/) from index i on, piece being the text since the
\* last match: the pieces between the matches, the text after the last match
\* the last of them
RECURSIVE SplitFrames(_, _, _)
SplitFrames(text, i, piece) ==
  IF i > Len(text) THEN <<piece>>
  ELSE IF MatchBlankLine(text, i) > 0
    THEN <<piece>> \o SplitFrames(text, i + MatchBlankLine(text, i), <<>>)
  ELSE SplitFrames(text, i + 1, Append(piece, text[i]))

\* frame.split(/\r?\n/)
RECURSIVE SplitLines(_, _, _)
SplitLines(text, i, piece) ==
  IF i > Len(text) THEN <<piece>>
  ELSE IF MatchLineEnd(text, i) > 0
    THEN <<piece>> \o SplitLines(text, i + MatchLineEnd(text, i), <<>>)
  ELSE SplitLines(text, i + 1, Append(piece, text[i]))

\* String.prototype.trimStart, trimEnd, trim
RECURSIVE TrimStart(_)
TrimStart(text) ==
  IF text # <<>> /\ Head(text) \in Whitespace THEN TrimStart(Tail(text)) ELSE text
RECURSIVE TrimEnd(_)
TrimEnd(text) ==
  IF text # <<>> /\ text[Len(text)] \in Whitespace
    THEN TrimEnd(SubSeq(text, 1, Len(text) - 1)) ELSE text
Trim(text) == TrimEnd(TrimStart(text))

\* dataLines.join("\n")
RECURSIVE JoinLines(_)
JoinLines(lines) ==
  IF lines = <<>> THEN <<>>
  ELSE IF Len(lines) = 1 THEN lines[1]
  ELSE lines[1] \o <<"\n">> \o JoinLines(Tail(lines))

\* the loop over the lines of a frame, acc holding eventName, eventId, dataLines
RECURSIVE ParseLines(_, _)
ParseLines(lines, acc) ==
  IF lines = <<>> THEN acc
  ELSE LET line == Head(lines)
       IN ParseLines(Tail(lines),
            IF At(line, 1) = ":" THEN acc
            ELSE IF At(line, 1) = EventField
              THEN [acc EXCEPT !.eventName = IF Trim(Tail(line)) = <<>> THEN <<Message>>
                                             ELSE Trim(Tail(line))]
            ELSE IF At(line, 1) = IdField
              THEN [acc EXCEPT !.eventId = Trim(Tail(line)), !.hasId = TRUE]
            ELSE IF At(line, 1) = DataField
              THEN [acc EXCEPT !.dataLines = Append(@, TrimStart(Tail(line)))]
            ELSE acc)

\* ParseFrame with a fault: the data lines are joined last first
ParseFrameReversed(frame) ==
  LET acc == ParseLines(SplitLines(frame, 1, <<>>),
                        [eventName |-> <<Message>>, eventId |-> <<>>, hasId |-> FALSE,
                         dataLines |-> <<>>])
      n == Len(acc.dataLines)
  IN [eventName |-> acc.eventName, eventId |-> acc.eventId, hasId |-> acc.hasId,
      data |-> JoinLines([i \in 1..n |-> acc.dataLines[n + 1 - i]])]

\* the body of the loop over the frames, from eventName = "message" to
\* dataLines.join("\n")
ParseFrame(frame) ==
  LET acc == ParseLines(SplitLines(frame, 1, <<>>),
                        [eventName |-> <<Message>>, eventId |-> <<>>, hasId |-> FALSE,
                         dataLines |-> <<>>])
  IN [eventName |-> acc.eventName, eventId |-> acc.eventId, hasId |-> acc.hasId,
      data |-> JoinLines(acc.dataLines)]

\* JSON.parse(data), on the JSON texts of the alphabet (white space around the
\* text is allowed); every other text is a SyntaxError
JSONParseData(data) ==
  LET text == Trim(data)
  IN IF Len(text) # 1 THEN TypeError
     ELSE CASE text[1] = JsonOut5 ->
                 Obj([k \in {"usage"} |-> Obj([j \in {"output_tokens"} |-> Num(5)])])
            [] text[1] = JsonIn7Out2 ->
                 Obj([k \in {"usage"} |->
                        Obj([j \in {"input_tokens", "output_tokens"} |->
                               IF j = "input_tokens" THEN Num(7) ELSE Num(2)])])
            [] text[1] = JsonOut0 ->
                 Obj([k \in {"usage"} |-> Obj([j \in {"output_tokens"} |-> Num(0)])])
            [] text[1] = JsonUsageText ->
                 Obj([k \in {"usage"} |->
                        Obj([j \in {"output_tokens"} |-> Str(<<"many">>)])])
            [] text[1] = JsonNoUsage ->
                 Obj([k \in {"type"} |-> Str(<<MessageDelta>>)])
            [] text[1] = JsonNull -> Null
            [] OTHER -> TypeError

\* Number(x ?? previous) || previous, for the values drawn: a string that is no
\* number, an array and an object give NaN
NumberOr(x, previous) ==
  IF x.t \in {"undefined", "null"} THEN previous
  ELSE IF x.t = "num" THEN (IF x.v = 0 THEN previous ELSE x.v)
  ELSE IF x.t = "bool" THEN (IF x.v THEN 1 ELSE previous)
  ELSE previous

\* the message_delta branch: the token counters after the frame
UpdateUsage(eventName, data, usage) ==
  IF eventName # <<MessageDelta>> THEN usage
  ELSE LET parsed == JSONParseData(data)
       IN IF parsed.t = "throw" THEN usage
          ELSE IF Get(parsed, "usage").t = "throw" THEN usage
          ELSE IF Truthy(Get(parsed, "usage")) /\ TypeofObject(Get(parsed, "usage"))
            THEN [input |-> NumberOr(Get(Get(parsed, "usage"), "input_tokens"), usage.input),
                  output |-> NumberOr(Get(Get(parsed, "usage"), "output_tokens"), usage.output)]
          ELSE usage

\* LatencyBucket with a fault: < instead of <= in every test
LatencyBucketStrict(durationMs) ==
  IF durationMs < 50 THEN "le_50ms"
  ELSE IF durationMs < 100 THEN "le_100ms"
  ELSE IF durationMs < 250 THEN "le_250ms"
  ELSE IF durationMs < 500 THEN "le_500ms"
  ELSE IF durationMs < 1000 THEN "le_1s"
  ELSE IF durationMs < 3000 THEN "le_3s"
  ELSE IF durationMs < 10000 THEN "le_10s"
  ELSE "gt_10s"

LatencyBucket(durationMs) ==
  IF durationMs <= 50 THEN "le_50ms"
  ELSE IF durationMs <= 100 THEN "le_100ms"
  ELSE IF durationMs <= 250 THEN "le_250ms"
  ELSE IF durationMs <= 500 THEN "le_500ms"
  ELSE IF durationMs <= 1000 THEN "le_1s"
  ELSE IF durationMs <= 3000 THEN "le_3s"
  ELSE IF durationMs <= 10000 THEN "le_10s"
  ELSE "gt_10s"

\* ---------------------------------------------------------------- actions

\* no pure function called, no stream teed, no captureSSE task
NoCall == [fn |-> "none"]
NoTee == [pc |-> "none"]
NoSse == [pc |-> "none"]

\* module top level with the given configuration:
\* log({"event.action": "proxy_started"}) with the queue empty
StartWith(enabled, size, autoCreate, archive) ==
  /\ AXIOM_ENABLED = enabled
  /\ AXIOM_BATCH_SIZE = size
  /\ AXIOM_AUTO_CREATE_DATASET = autoCreate
  /\ ARCHIVE_ENABLED = archive
  /\ req = [r \in Requests |-> NewRequest]
  /\ LET s == LogWith(EmptyAx, [trace |-> NoTrace, action |-> "proxy_started"],
                      enabled, size, autoCreate)
     IN /\ axiomQueue = s.queue
        /\ axiomFlushTimer = s.timer
        /\ axiomFlushInFlight = s.inFlight
        /\ axiomDatasetEnsured = s.ensured
        /\ pendingTimers = s.timers
        /\ flights = s.flights
        /\ exported = s.exported
        /\ enqueued = s.enqueued
        /\ logged = s.logged
        /\ exportFailed = s.failed
        /\ last = [op |-> "start", sizeTrigger |-> s.sizeTrigger,
                   timerBefore |-> FALSE, idleBefore |-> s.idleBefore,
                   late |-> FALSE, busy |-> FALSE,
                   createSent |-> s.createSent, creates |-> s.creates,
                   answer |-> 0]

Init ==
  /\ \E enabled \in BOOLEAN, size \in 1..MaxBatchSize, autoCreate \in BOOLEAN,
        archive \in BOOLEAN : StartWith(enabled, size, autoCreate, archive)
  /\ call = NoCall
  /\ tee = NoTee
  /\ sse = NoSse

\* a caller of log (QueueSpec: any caller, any event)
CallLog ==
  /\ logged < MaxLog
  /\ \E a \in {"request_received", "request_rollup"} :
       LET s == Log(AxState, [trace |-> 1, action |-> a])
       IN SetAx(s) /\ last' = LastOf("log", s)
  /\ UNCHANGED <<configVars, req, compVars>>

\* the setTimeout callback of queueAxiom
TimerFire ==
  /\ pendingTimers > 0
  /\ LET s == FlushAxiom([AxState EXCEPT !.timer = FALSE, !.timers = @ - 1],
                         AXIOM_ENABLED, AXIOM_BATCH_SIZE, AXIOM_AUTO_CREATE_DATASET)
     IN SetAx(s) /\ last' = LastOf("timer", s)
  /\ UNCHANGED <<configVars, req, compVars>>

\* ensureAxiomDataset: the create request answers 2xx or 409
CreateOk ==
  /\ \E i \in DOMAIN flights, status \in {200, 409} :
       /\ flights[i].pc = "create"
       /\ LET s == CreateAnswered(AxState, i, status)
          IN SetAx(s) /\ last' = LastOf("create_ok", s)
  /\ UNCHANGED <<configVars, req, compVars>>

\* ensureAxiomDataset throws: the fetch rejects (status 0 here), or answers
\* neither 2xx nor 409
CreateFail ==
  /\ \E i \in DOMAIN flights, status \in {0, 500} :
       /\ flights[i].pc = "create"
       /\ LET s == IF status = 0 THEN FlushFailed(AxState, i, FALSE)
                   ELSE CreateAnswered(AxState, i, status)
          IN SetAx(s) /\ last' = LastOf("create_fail", s)
  /\ UNCHANGED <<configVars, req, compVars>>

\* flushAxiom resumes after await ensureAxiomDataset() and sends the ingest request
IngestSend ==
  /\ \E i \in DOMAIN flights :
       /\ flights[i].pc = "ensured"
       /\ LET s == [AxState EXCEPT !.flights[i].pc = "ingest"]
          IN SetAx(s) /\ last' = LastOf("ingest_send", s)
  /\ UNCHANGED <<configVars, req, compVars>>

\* the ingest request answers 2xx
IngestOk ==
  /\ \E i \in DOMAIN flights :
       /\ flights[i].pc = "ingest"
       /\ LET s == FlushSucceeded(AxState, i)
          IN SetAx(s) /\ last' = LastOf("ingest_ok", s)
  /\ UNCHANGED <<configVars, req, compVars>>

\* the ingest request rejects (status 0 here), or answers a non-success status
\* (404 or another)
IngestFail ==
  /\ \E i \in DOMAIN flights, status \in {0, 404, 500} :
       /\ flights[i].pc = "ingest"
       /\ LET s == FlushFailed([AxState EXCEPT !.answer = status], i, status = 404)
          IN SetAx(s) /\ last' = LastOf("ingest_fail", s)
  /\ UNCHANGED <<configVars, req, compVars>>

QueueNext ==
  \/ CallLog
  \/ TimerFire
  \/ CreateOk
  \/ CreateFail
  \/ IngestSend
  \/ IngestOk
  \/ IngestFail

QueueSpec == Init /\ [][QueueNext]_vars

\* fetch(request): the request body is read; request_received is logged;
\* await archiveWrite(request.body)
Receive(r) ==
  /\ req[r].pc = "idle"
  /\ \E n \in 0..MaxTools :
       Emit(r, <<"request_received">>, [req[r] EXCEPT !.pc = "archive_body", !.tools = n])

\* archiveWrite(request.body) resolves; await archiveWrite(request.meta.json)
ArchiveBodyDone(r) ==
  /\ req[r].pc = "archive_body"
  /\ Emit(r, <<>>, [req[r] EXCEPT !.pc = "archive_meta"])

\* archiveWrite(request.meta.json) resolves; one request_tool per tool object;
\* the upstream fetch is issued
ArchiveMetaDone(r) ==
  /\ req[r].pc = "archive_meta"
  /\ Emit(r, Repeat("request_tool", req[r].tools),
          [req[r] EXCEPT !.pc = "fetch", !.upstreamCalls = @ + 1])

\* mkdir or writeFile rejects in an archiveWrite awaited outside the try block:
\* the handler's promise rejects and the server answers with its own error
ArchiveRequestFail(r) ==
  /\ ARCHIVE_ENABLED
  /\ req[r].pc \in {"archive_body", "archive_meta"}
  /\ Emit(r, <<>>, [req[r] EXCEPT !.pc = "done", !.response = "server_error",
                                 !.archiveFailed = TRUE])

\* the upstream fetch resolves; response_headers is logged;
\* await archiveWrite(response.meta.json)
FetchResolve(r) ==
  /\ req[r].pc = "fetch"
  /\ \E k \in {"no_body", "plain", "sse"} :
       Emit(r, <<"response_headers">>,
            [req[r] EXCEPT !.pc = "archive_response_meta", !.reply = k])

\* the upstream fetch rejects (transport failure): the catch block
FetchReject(r) ==
  /\ req[r].pc = "fetch"
  /\ CatchBlock(r, [req[r] EXCEPT !.reply = "rejected"])

\* archiveWrite(response.meta.json) resolves. No body: the response is returned.
\* Event stream: captureSSE is started (it runs to its first reader.read()) and
\* the response is returned. Otherwise: captureResponseBody is started (it runs
\* to its await of the whole body), request_rollup is logged, the response is
\* returned.
ArchiveResponseMetaDone(r) ==
  /\ req[r].pc = "archive_response_meta"
  /\ CASE req[r].reply = "no_body" ->
            Emit(r, <<>>, [req[r] EXCEPT !.pc = "done", !.response = "upstream"])
       [] req[r].reply = "sse" ->
            Emit(r, <<>>, [req[r] EXCEPT !.pc = "done", !.response = "upstream",
                                         !.inspect = "sse_reading"])
       [] req[r].reply = "plain" ->
            Emit(r, <<"request_rollup">>,
                 [req[r] EXCEPT !.pc = "done", !.response = "upstream",
                                !.inspect = "reading"])

\* archiveWrite(response.meta.json) rejects inside the try block: the catch block
ArchiveResponseMetaFail(r) ==
  /\ ARCHIVE_ENABLED
  /\ req[r].pc = "archive_response_meta"
  /\ CatchBlock(r, [req[r] EXCEPT !.archiveFailed = TRUE])

\* archiveWrite(error.txt) resolves: new Response("Bad gateway", {status: 502})
ArchiveErrorDone(r) ==
  /\ req[r].pc = "archive_error"
  /\ Emit(r, <<>>, [req[r] EXCEPT !.pc = "done", !.response = "bad_gateway"])

\* archiveWrite(error.txt) rejects inside the catch block: the handler rejects
ArchiveErrorFail(r) ==
  /\ ARCHIVE_ENABLED
  /\ req[r].pc = "archive_error"
  /\ Emit(r, <<>>, [req[r] EXCEPT !.pc = "done", !.response = "server_error",
                                 !.archiveFailed = TRUE])

\* captureResponseBody: the inspection stream is read to its end;
\* await archiveWrite(response.body)
BodyRead(r) ==
  /\ req[r].inspect = "reading"
  /\ Emit(r, <<>>, [req[r] EXCEPT !.inspect = "archive_response_body"])

\* ArchiveResponseBodyDone with a fault: response_body is logged only when the
\* archive is enabled
ArchiveResponseBodyDoneLogInArchive(r) ==
  /\ req[r].inspect = "archive_response_body"
  /\ Emit(r, IF ARCHIVE_ENABLED THEN <<"response_body">> ELSE <<>>,
          [req[r] EXCEPT !.inspect = "done"])

\* captureResponseBody: archiveWrite(response.body) resolves; response_body is logged
ArchiveResponseBodyDone(r) ==
  /\ req[r].inspect = "archive_response_body"
  /\ Emit(r, <<"response_body">>, [req[r] EXCEPT !.inspect = "done"])

\* captureResponseBody rejects: the inspection stream errors, or
\* archiveWrite(response.body) rejects; nothing awaits the task
CaptureBodyFail(r) ==
  /\ \/ req[r].inspect = "reading"
     \/ req[r].inspect = "archive_response_body" /\ ARCHIVE_ENABLED
  /\ Emit(r, <<>>, [req[r] EXCEPT !.inspect = "failed",
                                 !.archiveFailed = @ \/ req[r].inspect # "reading"])

\* captureSSE: reader.read() gives a chunk that completes n frames; the first is
\* logged as sse_event; await archiveAppend
SseChunk(r) ==
  /\ req[r].inspect = "sse_reading"
  /\ \E n \in 0..(MaxFrames - req[r].frames) :
       IF n = 0
         THEN Emit(r, <<>>, req[r])
         ELSE Emit(r, <<"sse_event">>,
                   [req[r] EXCEPT !.inspect = "sse_append", !.frames = @ + 1,
                                  !.chunkLeft = n - 1])

\* captureSSE: archiveAppend resolves; the next frame of the chunk is logged, or
\* the next chunk is awaited
ArchiveAppendDone(r) ==
  /\ req[r].inspect = "sse_append"
  /\ IF req[r].chunkLeft > 0
       THEN Emit(r, <<"sse_event">>,
                 [req[r] EXCEPT !.frames = @ + 1, !.chunkLeft = @ - 1])
       ELSE Emit(r, <<>>, [req[r] EXCEPT !.inspect = "sse_reading"])

\* captureSSE: reader.read() gives done; sse_summary, then request_rollup
SseEnd(r) ==
  /\ req[r].inspect = "sse_reading"
  /\ Emit(r, <<"sse_summary", "request_rollup">>, [req[r] EXCEPT !.inspect = "done"])

\* captureSSE rejects: reader.read() rejects, or archiveAppend rejects; nothing
\* awaits the task
CaptureSseFail(r) ==
  /\ \/ req[r].inspect = "sse_reading"
     \/ req[r].inspect = "sse_append" /\ ARCHIVE_ENABLED
  /\ Emit(r, <<>>, [req[r] EXCEPT !.inspect = "failed",
                                 !.archiveFailed = @ \/ req[r].inspect # "sse_reading"])

Next ==
  \/ TimerFire
  \/ CreateOk
  \/ CreateFail
  \/ IngestSend
  \/ IngestOk
  \/ IngestFail
  \/ \E r \in Requests : Receive(r)
  \/ \E r \in Requests : ArchiveBodyDone(r)
  \/ \E r \in Requests : ArchiveMetaDone(r)
  \/ \E r \in Requests : ArchiveRequestFail(r)
  \/ \E r \in Requests : FetchResolve(r)
  \/ \E r \in Requests : FetchReject(r)
  \/ \E r \in Requests : ArchiveResponseMetaDone(r)
  \/ \E r \in Requests : ArchiveResponseMetaFail(r)
  \/ \E r \in Requests : ArchiveErrorDone(r)
  \/ \E r \in Requests : ArchiveErrorFail(r)
  \/ \E r \in Requests : BodyRead(r)
  \/ \E r \in Requests : ArchiveResponseBodyDone(r)
  \/ \E r \in Requests : CaptureBodyFail(r)
  \/ \E r \in Requests : SseChunk(r)
  \/ \E r \in Requests : ArchiveAppendDone(r)
  \/ \E r \in Requests : SseEnd(r)
  \/ \E r \in Requests : CaptureSseFail(r)

Spec == Init /\ [][Next]_vars

\* the event loop runs every callback that is ready; the sink answers every
\* request, and does not reject for ever
QueueFairSpec ==
  /\ QueueSpec
  /\ WF_vars(TimerFire)
  /\ WF_vars(IngestSend)
  /\ SF_vars(CreateOk)
  /\ SF_vars(IngestOk)

\* ---------------------------------------------- calls of the pure functions

\* header names as a client writes them: the sensitive names and others, in
\* lower case, capitalised and in upper case
HeaderNames ==
  { <<"a", "u", "t", "h", "o", "r", "i", "z", "a", "t", "i", "o", "n">>,
    <<"A", "u", "t", "h", "o", "r", "i", "z", "a", "t", "i", "o", "n">>,
    <<"A", "U", "T", "H", "O", "R", "I", "Z", "A", "T", "I", "O", "N">>,
    <<"p", "r", "o", "x", "y", "-", "a", "u", "t", "h", "o", "r", "i", "z", "a", "t", "i", "o", "n">>,
    <<"P", "r", "o", "x", "y", "-", "A", "u", "t", "h", "o", "r", "i", "z", "a", "t", "i", "o", "n">>,
    <<"P", "R", "O", "X", "Y", "-", "A", "U", "T", "H", "O", "R", "I", "Z", "A", "T", "I", "O", "N">>,
    <<"x", "-", "a", "p", "i", "-", "k", "e", "y">>,
    <<"X", "-", "A", "p", "i", "-", "K", "e", "y">>,
    <<"X", "-", "A", "P", "I", "-", "K", "E", "Y">>,
    <<"a", "p", "i", "-", "k", "e", "y">>,
    <<"A", "p", "i", "-", "K", "e", "y">>,
    <<"A", "P", "I", "-", "K", "E", "Y">>,
    <<"c", "o", "o", "k", "i", "e">>,
    <<"C", "o", "o", "k", "i", "e">>,
    <<"C", "O", "O", "K", "I", "E">>,
    <<"s", "e", "t", "-", "c", "o", "o", "k", "i", "e">>,
    <<"S", "e", "t", "-", "C", "o", "o", "k", "i", "e">>,
    <<"S", "E", "T", "-", "C", "O", "O", "K", "I", "E">>,
    <<"c", "o", "n", "t", "e", "n", "t", "-", "t", "y", "p", "e">>,
    <<"C", "o", "n", "t", "e", "n", "t", "-", "T", "y", "p", "e">>,
    <<"C", "O", "N", "T", "E", "N", "T", "-", "T", "Y", "P", "E">>,
    <<"x", "-", "r", "e", "q", "u", "e", "s", "t", "-", "i", "d">>,
    <<"X", "-", "R", "e", "q", "u", "e", "s", "t", "-", "I", "d">>,
    <<"X", "-", "R", "E", "Q", "U", "E", "S", "T", "-", "I", "D">> }

\* inbound requests: a path under /v1, a path with two leading slashes, the
\* path "//"; with and without a query, a body, headers the handler overwrites
InboundRequests ==
  [url : [origin : {"localhost"},
          path : { <<"v1", "messages">>, <<"", "other.example", "v1">>, <<"", "">> },
          search : {"", "?beta=true"}],
   method : {"GET", "POST"},
   headers :
     { [n \in {"content-type"} |-> "application/json"],
       [n \in {"host", "x-api-key"} |-> IF n = "host" THEN "localhost" ELSE "secret"],
       [n \in {"accept-encoding", "x-request-id"} |->
          IF n = "accept-encoding" THEN "gzip" ELSE "client-id"] },
   body : {"null", <<1, 2>>}]

\* UPSTREAM_BASE_URL: an origin alone, or an origin with a path prefix
UpstreamBases == { [origin |-> "api.anthropic.com", path |-> <<>>],
                   [origin |-> "gateway.example", path |-> <<"anthropic">>] }

\* request payloads: JSON values that are no object, and objects whose fields
\* are missing, of the expected type, or of another type
Absent == [t |-> "absent"]
EmptyObj == Obj([k \in {} |-> Undefined])
UserMessage(content) == Obj([k \in {"role", "content"} |->
                               IF k = "role" THEN Str(USER) ELSE content])
TextBlock(text) == Obj([k \in {"type", "text"} |-> IF k = "type" THEN Str(TEXT) ELSE text])

ObjOf(model, stream, metadata, messages, system, tools) ==
  LET field == [k \in {"model", "stream", "metadata", "messages", "system", "tools"} |->
                  CASE k = "model" -> model [] k = "stream" -> stream
                    [] k = "metadata" -> metadata [] k = "messages" -> messages
                    [] k = "system" -> system [] k = "tools" -> tools]
  IN Obj([k \in {k \in DOMAIN field : field[k].t # "absent"} |-> field[k]])

\* the length the preview of a prompt is said to be cut to, and a text longer
\* than it
PreviewMax == 280
LongText == [i \in 1..(PreviewMax + 1) |-> "a"]

JsonObjects ==
  { ObjOf(m, s, md, ms, sy, tl) :
      m \in {Absent, Str(<<"m">>), Num(5)},
      s \in {Absent, Bool(TRUE), Str(<<"y">>)},
      md \in {Absent, Null, Str(<<"x">>), Arr(<<>>), Obj([k \in {"user_id"} |-> Str(<<"u">>)])},
      ms \in
        {Absent, Null, Str(<<"x">>), Arr(<<>>), Arr(<<Null, Num(1)>>), Arr(<<EmptyObj, UserMessage(Str(<<"h", "i">>))>>), Arr(<<UserMessage(Arr(<<Null, EmptyObj, TextBlock(Num(1))>>))>>), Arr(<<Obj([k \in {"role"} |-> Num(1)]), UserMessage(Arr(<<Str(<<"x">>), TextBlock(Str(<<"a", " ", "\n", "b">>))>>))>>), Arr(<<UserMessage(Arr(<<TextBlock(Str(LongText))>>))>>)},
      sy \in {Absent, Str(<<"s">>), Arr(<<Str(<<"s">>)>>)},
      tl \in
        {Absent, Null, EmptyObj, Arr(<<Null, Str(<<"x">>), Obj([k \in {"name"} |-> Str(<<"t">>)]), Obj([k \in {"name"} |-> Num(1)])>>), Arr(<<Obj([k \in {"name"} |-> Str(<<"t">>)]), Arr(<<>>)>>)} }

JsonNonObjects == {Null, Num(0), Num(5), Str(<<>>), Str(<<"x">>), Bool(TRUE),
                   Bool(FALSE), Arr(<<>>), Arr(<<Num(1)>>)}

\* request bodies: none, empty, bytes of a type that is no text, text that is
\* not JSON, JSON text
RequestBodies ==
  { [bytes |-> "null"], [bytes |-> "empty"],
    [bytes |-> "some", contentType |-> "application/octet-stream",
     text |-> [json |-> TRUE, value |-> EmptyObj]],
    [bytes |-> "some", contentType |-> "text/plain", text |-> [json |-> FALSE]] }
  \cup [bytes : {"some"}, contentType : {"application/json"},
        text : [json : {TRUE}, value : JsonObjects \cup JsonNonObjects]]

Pathnames == {"/v1/messages", "/v1/messages/count_tokens", "/v1/models/claude", "/"}

\* the calls drawn: redactHeaderValue, latencyBucket, the upstream request of an
\* inbound request, the insights of a request body
FnCalls ==
  [fn : {"redactHeaderValue"}, name : HeaderNames,
   value : {"", "secret", "[REDACTED]"}, results : {<<>>}]
  \cup [fn : {"latencyBucket"}, durationMs : 0..MaxDurationMs, results : {<<>>}]
  \cup [fn : {"upstreamRequest"}, request : InboundRequests,
        upstreamOrigin : UpstreamBases, requestId : {"uuid-1"}, results : {<<>>}]
  \cup [fn : {"requestInsights"}, body : RequestBodies, pathname : Pathnames,
        results : {<<>>}]

\* the proxy with no sink and no archive, about to call one pure function
FnInit ==
  /\ StartWith(FALSE, 1, FALSE, FALSE)
  /\ call \in FnCalls
  /\ tee = NoTee
  /\ sse = NoSse

FnUnchanged == UNCHANGED <<configVars, queueVars, req, last, tee, sse>>

\* redactHeaderValue(name, value), then redactHeaderValue(name, its result)
ApplyRedactHeaderValue ==
  /\ call.fn = "redactHeaderValue"
  /\ Len(call.results) < 2
  /\ LET v == IF call.results = <<>> THEN call.value
              ELSE call.results[Len(call.results)]
     IN call' = [call EXCEPT !.results = Append(@, RedactHeaderValue(call.name, v))]
  /\ FnUnchanged

\* latencyBucket(durationMs)
ApplyLatencyBucket ==
  /\ call.fn = "latencyBucket"
  /\ call.results = <<>>
  /\ call' = [call EXCEPT !.results = <<LatencyBucket(call.durationMs)>>]
  /\ FnUnchanged

\* the fetch handler up to fetch(upstreamUrl, {...})
ApplyUpstreamRequest ==
  /\ call.fn = "upstreamRequest"
  /\ call.results = <<>>
  /\ call' = [call EXCEPT !.results =
                <<UpstreamRequest(call.request, call.upstreamOrigin, call.requestId)>>]
  /\ FnUnchanged

\* the fetch handler: decodeBody, parsePayloadJson, extractRequestInsights,
\* classifyRequest
ApplyRequestInsights ==
  /\ call.fn = "requestInsights"
  /\ call.results = <<>>
  /\ call' = [call EXCEPT !.results = <<RequestInsights(call.body, call.pathname)>>]
  /\ FnUnchanged

\* the fetch handler goes on, the insights extracted: request_received, the
\* archive writes, the tool records, the upstream fetch
ApplyRequestSteps ==
  /\ call.fn = "requestInsights"
  /\ Len(call.results) = 1
  /\ call.results[1].t = "insights"
  /\ call' = [call EXCEPT !.results =
                Append(@, RequestSteps(call.results[1].requestJson,
                                       call.results[1].insights))]
  /\ FnUnchanged

FnNext ==
  \/ ApplyRedactHeaderValue
  \/ ApplyLatencyBucket
  \/ ApplyUpstreamRequest
  \/ ApplyRequestInsights
  \/ ApplyRequestSteps

FnSpec == FnInit /\ [][FnNext]_vars

\* ------------------------------------------------- the teed response body

BoundedSeq(S, n) == UNION {[1..k -> S] : k \in 0..n}

RECURSIVE Flatten(_)
Flatten(chunks) == IF chunks = <<>> THEN <<>> ELSE Head(chunks) \o Flatten(Tail(chunks))

\* the chunks upstreamResponse.body delivers: every byte sequence, cut every way
Bodies ==
  {s \in BoundedSeq(BoundedSeq({0, 1}, MaxBytes) \ {<<>>}, MaxBytes) :
     Len(Flatten(s)) <= MaxBytes}

\* TeeBranches with a fault: the chunk reaches the client branch only
TeeBranchesClientOnly(s, chunk) == [s EXCEPT !.clientQ = Append(@, chunk)]

\* ReadableStream.prototype.tee: a chunk read from the source is enqueued on
\* both branches
TeeBranches(s, chunk) ==
  [s EXCEPT !.clientQ = Append(@, chunk), !.inspectQ = Append(@, chunk)]

\* CaptureDetached with a fault: await in the place of void
CaptureAwaited == FALSE

\* void captureSSE(...), void captureResponseBody(...): the handler does not
\* wait for the inspection task
CaptureDetached == TRUE

\* the proxy with no sink and no archive; the upstream response has arrived and
\* the handler is about to tee its body
TeeInit ==
  /\ StartWith(FALSE, 1, FALSE, FALSE)
  /\ call = NoCall
  /\ sse = NoSse
  /\ \E body \in Bodies :
       tee = [pc |-> "handler", source |-> body, all |-> Flatten(body),
              closed |-> FALSE, clientQ |-> <<>>, inspectQ |-> <<>>,
              clientGot |-> <<>>, inspectGot |-> <<>>,
              clientDone |-> FALSE, inspectDone |-> FALSE, response |-> "none"]

TeeUnchanged == UNCHANGED <<configVars, queueVars, req, last, call, sse>>

\* body.tee(); the inspection task is started on inspectStream; the Response
\* that carries clientStream is returned
HandlerTee ==
  /\ tee.pc = "handler"
  /\ tee' = [tee EXCEPT !.pc = "streaming",
                        !.response = IF CaptureDetached THEN "returned" ELSE "none"]
  /\ TeeUnchanged

\* the tee reads the source when a branch has nothing buffered: the chunk goes
\* to both branches, the end of the source closes both
TeePull ==
  /\ tee.pc = "streaming"
  /\ ~tee.closed
  /\ tee.clientQ = <<>> \/ tee.inspectQ = <<>>
  /\ tee' = IF tee.source = <<>> THEN [tee EXCEPT !.closed = TRUE]
            ELSE [TeeBranches(tee, Head(tee.source)) EXCEPT !.source = Tail(@)]
  /\ TeeUnchanged

\* the client reads a chunk of the response body, or its end
ClientRead ==
  /\ tee.response = "returned"
  /\ ~tee.clientDone
  /\ \/ /\ tee.clientQ # <<>>
        /\ tee' = [tee EXCEPT !.clientGot = @ \o Head(tee.clientQ), !.clientQ = Tail(@)]
     \/ /\ tee.clientQ = <<>> /\ tee.closed
        /\ tee' = [tee EXCEPT !.clientDone = TRUE]
  /\ TeeUnchanged

\* the inspection task reads a chunk of inspectStream, or its end; a handler
\* that awaited the task would return its Response now
InspectRead ==
  /\ tee.pc = "streaming"
  /\ ~tee.inspectDone
  /\ \/ /\ tee.inspectQ # <<>>
        /\ tee' = [tee EXCEPT !.inspectGot = @ \o Head(tee.inspectQ), !.inspectQ = Tail(@)]
     \/ /\ tee.inspectQ = <<>> /\ tee.closed
        /\ tee' = [tee EXCEPT !.inspectDone = TRUE, !.response = "returned"]
  /\ TeeUnchanged

TeeNext ==
  \/ HandlerTee
  \/ TeePull
  \/ ClientRead
  \/ InspectRead

TeeSpec == TeeInit /\ [][TeeNext]_vars

\* ----------------------------------------------------- one captureSSE task

\* eventTypeCount.set(eventName, (eventTypeCount.get(eventName) ?? 0) + 1)
\* CountEvent with a fault: the count of a name is set to 1 each time
CountEventResets(typeCount, eventName) == (eventName :> 1) @@ typeCount

CountEvent(typeCount, eventName) ==
  IF eventName \in DOMAIN typeCount
    THEN [typeCount EXCEPT ![eventName] = @ + 1]
    ELSE (eventName :> 1) @@ typeCount

\* the fields of the sse_event record of a frame
SseEventFields(frame, parsed, sequence) ==
  LET always == [k \in {"log.level", "event.sequence", "sse.event", "sse.data",
                        "sse.frame", "sse.data.bytes"} |->
                   CASE k = "log.level" -> "info"
                     [] k = "event.sequence" -> sequence
                     [] k = "sse.event" -> parsed.eventName
                     [] k = "sse.data" -> parsed.data
                     [] k = "sse.frame" -> frame
                     [] k = "sse.data.bytes" -> ByteLength(parsed.data)]
  IN IF parsed.hasId THEN ("sse.id" :> parsed.eventId) @@ always ELSE always

\* the fields sse_summary and the request_rollup of an event stream share
SseTotals(s) ==
  [k \in {"log.level", "sse.event_count", "sse.stream.bytes", "usage.input_tokens",
          "usage.output_tokens", "sse.type_counts"} |->
     CASE k = "log.level" -> "info"
       [] k = "sse.event_count" -> s.sequence
       [] k = "sse.stream.bytes" -> s.sseBytes
       [] k = "usage.input_tokens" -> s.usage.input
       [] k = "usage.output_tokens" -> s.usage.output
       [] k = "sse.type_counts" -> s.typeCount]

\* the loop over the frames of a chunk, up to the await of archiveAppend that
\* follows the first frame that is not empty: the frames that trim to nothing
\* are skipped, the frame is parsed, counted and logged as sse_event
RECURSIVE RunFrames(_, _, _)
RunFrames(s, ax, frames) ==
  IF frames = <<>> THEN [sse |-> [s EXCEPT !.pc = "reading", !.pending = <<>>], ax |-> ax]
  ELSE IF Trim(Head(frames)) = <<>> THEN RunFrames(s, ax, Tail(frames))
  ELSE LET parsed == ParseFrame(Head(frames))
       IN [sse |-> [s EXCEPT !.pc = "append",
                             !.pending = Tail(frames),
                             !.sequence = @ + 1,
                             !.typeCount = CountEvent(@, parsed.eventName),
                             !.usage = UpdateUsage(parsed.eventName, parsed.data, @)],
           ax |-> Log(ax, [trace |-> 1, action |-> "sse_event",
                           fields |-> SseEventFields(Head(frames), parsed, s.sequence + 1)])]

\* the lines of a frame made of fields: a data, event or id field with or
\* without a space after the colon, a comment, a line that is no field
LineKinds ==
  [kind : {"data"}, sep : {<<>>, <<" ">>}, value : {<<"a">>, <<"b">>}]
  \cup { [kind |-> "data", sep |-> <<" ">>, value |-> <<"a", " ">>],
         [kind |-> "data", sep |-> <<>>, value |-> <<JsonOut5>>],
         [kind |-> "event", sep |-> <<>>, value |-> <<MessageDelta>>],
         [kind |-> "event", sep |-> <<" ">>, value |-> <<Ping>>],
         [kind |-> "event", sep |-> <<>>, value |-> <<>>],
         [kind |-> "comment", sep |-> <<>>, value |-> <<"a">>],
         [kind |-> "id", sep |-> <<" ">>, value |-> <<"a">>],
         [kind |-> "other", sep |-> <<>>, value |-> <<"a">>] }

RenderLine(line) ==
  CASE line.kind = "data" -> <<DataField>> \o line.sep \o line.value
    [] line.kind = "event" -> <<EventField>> \o line.sep \o line.value
    [] line.kind = "id" -> <<IdField>> \o line.sep \o line.value
    [] line.kind = "comment" -> <<":">> \o line.value
    [] OTHER -> line.value

\* the lines, each with its line end, then the blank line
RECURSIVE RenderFrame(_, _)
RenderFrame(lines, eol) ==
  IF lines = <<>> THEN eol
  ELSE RenderLine(Head(lines)) \o eol \o RenderFrame(Tail(lines), eol)

RECURSIVE RenderStream(_, _)
RenderStream(frames, eol) ==
  IF frames = <<>> THEN <<>>
  ELSE RenderFrame(Head(frames), eol) \o RenderStream(Tail(frames), eol)

EventLine(name) == [kind |-> "event", sep |-> <<" ">>, value |-> <<name>>]
DataLine(text) == [kind |-> "data", sep |-> <<" ">>, value |-> <<text>>]

\* frames of a stream that reports usage: message_delta frames with the JSON
\* texts, a frame with the usage and no event name, a ping
UsageFrames ==
  { <<EventLine(MessageDelta), DataLine(j)>> :
      j \in {JsonOut5, JsonIn7Out2, JsonOut0, JsonUsageText, JsonNoUsage, JsonNull} }
  \cup { <<DataLine(JsonOut5)>>, <<EventLine(Ping), DataLine("a")>> }

\* the event streams drawn: every text of CR, LF, space and a up to MaxText
\* symbols; one frame of up to MaxLines lines, with LF or CRLF line ends; up to
\* MaxStreamFrames frames that report usage
SseStreams ==
  { [kind |-> "text", frames |-> <<>>, text |-> x] :
      x \in BoundedSeq({"\r", "\n", " ", "a"}, MaxText) }
  \cup { [kind |-> "frames", frames |-> <<f>>, text |-> RenderStream(<<f>>, eol)] :
           f \in BoundedSeq(LineKinds, MaxLines) \ {<<>>},
           eol \in {<<"\n">>, <<"\r", "\n">>} }
  \cup { [kind |-> "frames", frames |-> fs, text |-> RenderStream(fs, <<"\n">>)] :
           fs \in BoundedSeq(UsageFrames, MaxStreamFrames) \ {<<>>} }

\* the proxy with the sink configured and no archive; captureSSE has been
\* started on the inspection stream of request 1
SseInit ==
  /\ StartWith(TRUE, MaxBatchSize, TRUE, FALSE)
  /\ call = NoCall
  /\ tee = NoTee
  /\ \E stream \in SseStreams :
       sse = [pc |-> "reading", kind |-> stream.kind, frames |-> stream.frames,
              whole |-> stream.text, input |-> stream.text, buffer |-> <<>>,
              pending |-> <<>>, sequence |-> 0, sseBytes |-> 0,
              typeCount |-> <<>>, usage |-> [input |-> 0, output |-> 0],
              cutInCrLf |-> FALSE]

SseStep(r) ==
  /\ sse' = r.sse
  /\ SetAx(r.ax)
  /\ last' = LastOf("sse", r.ax)
  /\ UNCHANGED <<configVars, req, call, tee>>

\* whether the chunk of the next k symbols ends between a CR and its LF
EndsInCrLf(input, k) == At(input, k) = "\r" /\ At(input, k + 1) = "\n"

\* SseRead with a fault: the piece kept from the chunks before is forgotten
SseReadForgetsBuffer ==
  /\ sse.pc = "reading"
  /\ \E k \in 1..Len(sse.input) :
       LET chunk == SubSeq(sse.input, 1, k)
           frames == SplitFrames(chunk, 1, <<>>)
       IN SseStep(RunFrames([sse EXCEPT !.input = SubSeq(@, k + 1, Len(@)),
                                        !.sseBytes = @ + ByteLength(chunk),
                                        !.buffer = frames[Len(frames)],
                                        !.cutInCrLf = @ \/ EndsInCrLf(sse.input, k)],
                            AxState, SubSeq(frames, 1, Len(frames) - 1)))

\* reader.read() gives a chunk, the next k symbols of the stream: the bytes are
\* counted, the text is added to the buffer, the buffer is split, its last piece
\* is kept, the frames before it are run (cutInCrLf records that some chunk
\* ended between a CR and its LF)
SseRead ==
  /\ sse.pc = "reading"
  /\ \E k \in 1..Len(sse.input) :
       LET chunk == SubSeq(sse.input, 1, k)
           frames == SplitFrames(sse.buffer \o chunk, 1, <<>>)
       IN SseStep(RunFrames([sse EXCEPT !.input = SubSeq(@, k + 1, Len(@)),
                                        !.sseBytes = @ + ByteLength(chunk),
                                        !.buffer = frames[Len(frames)],
                                        !.cutInCrLf = @ \/ EndsInCrLf(sse.input, k)],
                            AxState, SubSeq(frames, 1, Len(frames) - 1)))

\* archiveAppend resolves: the frames that remain of the chunk are run
SseAppendDone ==
  /\ sse.pc = "append"
  /\ SseStep(RunFrames(sse, AxState, sse.pending))

\* reader.read() gives done: sse_summary, then request_rollup
SseDone ==
  /\ sse.pc = "reading"
  /\ sse.input = <<>>
  /\ SseStep([sse |-> [sse EXCEPT !.pc = "done"],
              ax |-> Log(Log(AxState, [trace |-> 1, action |-> "sse_summary",
                                       fields |-> SseTotals(sse)]),
                         [trace |-> 1, action |-> "request_rollup",
                          fields |-> SseTotals(sse)])])

\* reader.read() rejects: captureSSE rejects, nothing awaits it
SseReadFail ==
  /\ sse.pc = "reading"
  /\ SseStep([sse |-> [sse EXCEPT !.pc = "failed"], ax |-> AxState])

SseNext ==
  \/ SseRead
  \/ SseAppendDone
  \/ SseDone
  \/ SseReadFail

SseSpec == SseInit /\ [][SseNext]_vars

\* ------------------------------------------------------------------ claims

IsPrefix(a, b) == Len(a) <= Len(b) /\ SubSeq(b, 1, Len(a)) = a

RECURSIVE FlightBatches(_)
FlightBatches(fs) ==
  IF fs = <<>> THEN <<>> ELSE fs[1].batch \o FlightBatches(Tail(fs))

\* a step that enqueues one record (a log call with the sink configured)
EnqueueStep == Len(enqueued') = Len(enqueued) + 1

\* C1: when the sink does not fail for ever, every enqueued record is delivered
\* in a successful export, once, and the exported records are the enqueued
\* records in enqueue order.
C1_NoLoss ==
  /\ [](IsPrefix(exported, enqueued))
  /\ \A i \in 1..MaxLog : (Len(enqueued) >= i) ~> (Len(exported) >= i)

C1_Witness ==
  /\ exportFailed
  /\ Len(enqueued) >= 2
  /\ exported = enqueued

\* C2: exported records, then the batch in flight, then the buffer, are the
\* records enqueued so far, in enqueue order.
C2_OrderInvariant ==
  enqueued = exported \o FlightBatches(flights) \o axiomQueue

C2_Witness ==
  /\ last.op \in {"ingest_fail", "create_fail"}
  /\ last.late
  /\ Len(axiomQueue) > 0

\* C3: at most one export is in flight; a timer firing or an enqueue that happens
\* while an export is in flight starts no export and removes nothing from the
\* buffer.
C3_SingleFlight ==
  /\ [](Len(flights) <= 1 /\ (axiomFlushInFlight <=> Len(flights) = 1))
  /\ [][(axiomFlushInFlight /\ (EnqueueStep \/ pendingTimers' < pendingTimers))
          => (flights' = flights /\ IsPrefix(axiomQueue, axiomQueue'))]_vars

C3_Witness ==
  /\ last.op = "log"
  /\ last.sizeTrigger
  /\ last.busy
  /\ Len(axiomQueue) >= AXIOM_BATCH_SIZE

\* C4: an enqueue that makes the buffer reach the batch size while no export is
\* in flight starts an export in the same step, whether or not a timer is pending.
C4_SizeDrivenFlush ==
  [][(EnqueueStep /\ Len(axiomQueue) + 1 >= AXIOM_BATCH_SIZE /\ ~axiomFlushInFlight)
       => (/\ axiomFlushInFlight'
           /\ Len(flights') = Len(flights) + 1
           /\ flights'[Len(flights')].batch
                = SpliceFront(Append(axiomQueue, enqueued'[Len(enqueued')]),
                              AXIOM_BATCH_SIZE))]_vars

C4_Witness ==
  /\ last.op = "log"
  /\ last.sizeTrigger
  /\ last.idleBefore
  /\ last.timerBefore
  /\ axiomFlushInFlight

\* C5 as stated: after an enqueue that makes the buffer reach the batch size no
\* flush timer is pending.
C5_TimerCancelled ==
  (last.op = "log" /\ last.sizeTrigger) => (~axiomFlushTimer /\ pendingTimers = 0)

\* C5 as amended: an enqueue that makes the buffer reach the batch size neither
\* schedules nor cancels a flush timer: the timer handle and the scheduled
\* callbacks are what they were before the enqueue.
C5_TimerUntouched ==
  [][(EnqueueStep /\ Len(axiomQueue) + 1 >= AXIOM_BATCH_SIZE)
       => UNCHANGED <<axiomFlushTimer, pendingTimers>>]_vars

C5_Witness ==
  /\ last.op = "log"
  /\ last.sizeTrigger
  /\ last.timerBefore
  /\ axiomFlushTimer
  /\ pendingTimers = 1

\* number of log calls of request r with this event.action
Count(r, action) ==
  Cardinality({i \in DOMAIN req[r].emitted : req[r].emitted[i] = action})

\* the handler of r has returned or rejected, and its inspection task, if one was
\* started, has ended
Settled(r) ==
  /\ req[r].pc = "done"
  /\ req[r].inspect \in {"none", "done", "failed"}

Replies == {"no_body", "plain", "sse"}

\* C6: a request that got an answer from the upstream call (a reply with or
\* without a body, or a transport failure) ends with exactly one request_rollup
\* record, and no request ever has two.
C6_RollupExactlyOnce ==
  \A r \in Requests :
    /\ Count(r, "request_rollup") <= 1
    /\ (Settled(r) /\ req[r].reply # "none") => Count(r, "request_rollup") = 1

\* C7: a non-streaming request whose body was read and recorded has logged
\* request_received, response_headers, response_body, request_rollup, in this
\* order (request_tool records, which follow request_received, left aside).
C7_NonStreamingOrder ==
  \A r \in Requests :
    (req[r].reply = "plain" /\ req[r].pc = "done" /\ req[r].inspect = "done")
      => SelectSeq(req[r].emitted, LAMBDA a : a # "request_tool")
           = <<"request_received", "response_headers", "response_body", "request_rollup">>

\* C8: the error record and the 502 response are produced only when the upstream
\* call itself failed; a request that has logged response_headers has no error
\* record and is not answered 502.
C8_FailureOnlyFromForwarding ==
  \A r \in Requests :
    /\ (Count(r, "proxy_request") > 0 \/ req[r].response = "bad_gateway")
         => req[r].reply = "rejected"
    /\ Count(r, "response_headers") > 0
         => (Count(r, "proxy_request") = 0 /\ req[r].response # "bad_gateway")

\* C9: every request issues the upstream call exactly once (never twice, and once
\* by the time its handler ends); when the call fails at transport level the
\* request has one error record, one failed rollup and a 502 response.
C9_NoRetry ==
  \A r \in Requests :
    /\ req[r].upstreamCalls <= 1
    /\ req[r].pc = "done" => req[r].upstreamCalls = 1
    /\ (req[r].pc = "done" /\ req[r].reply = "rejected")
         => (/\ Count(r, "proxy_request") = 1
             /\ Count(r, "request_rollup") = 1
             /\ req[r].response = "bad_gateway")

\* C10: what the client receives depends on the upstream call alone: the upstream
\* reply relayed when there is one, 502 when the call failed at transport level,
\* whatever the archive writes and the exports do.
C10_Isolation ==
  \A r \in Requests :
    req[r].pc = "done"
      => (/\ req[r].response # "server_error"
          /\ req[r].reply \in Replies => req[r].response = "upstream"
          /\ req[r].reply = "rejected" => req[r].response = "bad_gateway")

\* the two strings differ at most in the case of their letters
SameIgnoringCase(a, b) ==
  /\ Len(a) = Len(b)
  /\ \A i \in DOMAIN a :
       \/ a[i] = b[i]
       \/ \E k \in DOMAIN UpperCase : {a[i], b[i]} = {UpperCase[k], LowerCase[k]}

Redacted(listed) ==
  /\ call.fn = "redactHeaderValue"
  /\ call.results # <<>>
  => /\ call.results[1] = IF \E n \in listed : SameIgnoringCase(call.name, n)
                            THEN "[REDACTED]" ELSE call.value
     /\ \A i \in DOMAIN call.results : call.results[i] = call.results[1]

\* C16 as stated: the value is replaced by "[REDACTED]" exactly when the name,
\* in lower case, is authorization, proxy-authorization, api-key, cookie or
\* set-cookie, and is returned unchanged otherwise; redacting twice gives what
\* redacting once gives.
C16_RedactorApiKey ==
  Redacted({ <<"a", "u", "t", "h", "o", "r", "i", "z", "a", "t", "i", "o", "n">>, <<"p", "r", "o", "x", "y", "-", "a", "u", "t", "h", "o", "r", "i", "z", "a", "t", "i", "o", "n">>,
             <<"a", "p", "i", "-", "k", "e", "y">>, <<"c", "o", "o", "k", "i", "e">>, <<"s", "e", "t", "-", "c", "o", "o", "k", "i", "e">> })

\* C16 amended: the same with x-api-key in the place of api-key.
C16_Redactor ==
  Redacted({ <<"a", "u", "t", "h", "o", "r", "i", "z", "a", "t", "i", "o", "n">>, <<"p", "r", "o", "x", "y", "-", "a", "u", "t", "h", "o", "r", "i", "z", "a", "t", "i", "o", "n">>,
             <<"x", "-", "a", "p", "i", "-", "k", "e", "y">>, <<"c", "o", "o", "k", "i", "e">>, <<"s", "e", "t", "-", "c", "o", "o", "k", "i", "e">> })

C16_Witness ==
  /\ call.fn = "redactHeaderValue"
  /\ call.name = <<"X", "-", "A", "p", "i", "-", "K", "e", "y">>
  /\ call.value = "secret"
  /\ call.results = <<"[REDACTED]", "[REDACTED]">>

\* the bands of the claim: upper bound in milliseconds, label
Bands == << <<50, "le_50ms">>, <<100, "le_100ms">>, <<250, "le_250ms">>,
            <<500, "le_500ms">>, <<1000, "le_1s">>, <<3000, "le_3s">>,
            <<10000, "le_10s">> >>

FirstBand(d) ==
  LET fits == {i \in DOMAIN Bands : Bands[i][1] >= d}
  IN IF fits = {} THEN "gt_10s"
     ELSE Bands[CHOOSE i \in fits : \A j \in fits : i <= j][2]

\* C17: latencyBucket(d) is the label of the first band whose upper bound is at
\* least d, and gt_10s above 10000; 50 gives le_50ms, 51 le_100ms, 10000 le_10s
\* and 10001 gt_10s.
C17_LatencyBucket ==
  /\ call.fn = "latencyBucket"
  /\ call.results # <<>>
  => /\ call.results[1] = FirstBand(call.durationMs)
     /\ call.durationMs = 50 => call.results[1] = "le_50ms"
     /\ call.durationMs = 51 => call.results[1] = "le_100ms"
     /\ call.durationMs = 10000 => call.results[1] = "le_10s"
     /\ call.durationMs = 10001 => call.results[1] = "gt_10s"

C17_Witness ==
  /\ call.fn = "latencyBucket"
  /\ call.durationMs = 10000
  /\ call.results = <<"le_10s">>

Rewritten == {"host", "x-request-id", "accept-encoding"}

\* C19: the upstream request has the inbound method and body, goes to the
\* upstream base followed by the inbound path and query, does not follow
\* redirects, and carries the inbound headers unchanged except host (the
\* upstream's), x-request-id (the trace id of the request's records) and
\* accept-encoding (identity).
C19_UpstreamFraming ==
  /\ call.fn = "upstreamRequest"
  /\ call.results # <<>>
  => LET sent == call.results[1]
         in == call.request
     IN /\ sent # TypeError
        /\ sent.method = in.method
        /\ sent.body = in.body
        /\ sent.url = [origin |-> call.upstreamOrigin.origin,
                       path |-> call.upstreamOrigin.path \o in.url.path,
                       search |-> in.url.search]
        /\ sent.redirect = "manual"
        /\ DOMAIN sent.headers = DOMAIN in.headers \cup Rewritten
        /\ \A n \in DOMAIN in.headers \ Rewritten : sent.headers[n] = in.headers[n]
        /\ sent.headers["host"] = call.upstreamOrigin.origin
        /\ sent.headers["x-request-id"] = sent.trace
        /\ sent.headers["accept-encoding"] = "identity"

\* the key is in the object with a value that is not undefined
Present(out, k) == k \in DOMAIN out /\ out[k].t # "undefined"

\* the field of the payload, Absent when the payload is no object or has none
Field(p, k) == IF p.t = "obj" /\ k \in DOMAIN p.v THEN p.v[k] ELSE Absent

\* the names of the tools array: the string names of its object entries
ExpectedNames(a) ==
  LET named == SelectSeq(a, LAMBDA e : /\ e.t = "obj"
                                       /\ "name" \in DOMAIN e.v
                                       /\ e.v["name"].t = "str")
  IN [i \in DOMAIN named |-> named[i].v["name"]]

\* what the claim says of metadata, messages, system and tools: the derived
\* fields of a field of the expected type are produced, those of a field that is
\* missing or of another type are absent, whatever the other fields are
DerivedFields(p, out) ==
  /\ IF Field(p, "metadata").t = "obj" /\ "user_id" \in DOMAIN Field(p, "metadata").v
       THEN Present(out, "anthropic.user_id")
            /\ out["anthropic.user_id"] = Field(p, "metadata").v["user_id"]
       ELSE ~Present(out, "anthropic.user_id")
  /\ IF Field(p, "messages").t = "arr"
       THEN Present(out, "anthropic.messages.count")
            /\ out["anthropic.messages.count"] = Num(Len(Field(p, "messages").v))
       ELSE ~Present(out, "anthropic.messages.count") /\ ~Present(out, "prompt.preview")
  /\ IF Field(p, "system").t = "arr"
       THEN Present(out, "anthropic.system.count")
            /\ out["anthropic.system.count"] = Num(Len(Field(p, "system").v))
       ELSE ~Present(out, "anthropic.system.count")
  /\ IF Field(p, "tools").t = "arr"
       THEN /\ Present(out, "anthropic.tools.count")
            /\ out["anthropic.tools.count"] = Num(Len(Field(p, "tools").v))
            /\ Present(out, "anthropic.tools.names")
            /\ out["anthropic.tools.names"] = Arr(ExpectedNames(Field(p, "tools").v))
       ELSE ~Present(out, "anthropic.tools.count") /\ ~Present(out, "anthropic.tools.names")

InsightsDone == call.fn = "requestInsights" /\ call.results # <<>>

\* C20 as stated: the extraction never throws, whatever the body; the derived
\* field of each of model, metadata, messages, system and tools is absent when
\* the field is missing or of the wrong type, and the others are produced.
C20_ExtractorTotal ==
  InsightsDone =>
    /\ call.results[1].t # "throw"
    /\ LET p == call.results[1].requestJson
           out == call.results[1].insights
       IN /\ DerivedFields(p, out)
          /\ IF Field(p, "model").t = "str"
               THEN Present(out, "anthropic.model")
                    /\ out["anthropic.model"] = Field(p, "model")
               ELSE ~Present(out, "anthropic.model")

\* C20 amended: the same, except that model is copied as it is, whatever its
\* type, and is absent only when the payload has none.
C20_ExtractorTotalModelVerbatim ==
  InsightsDone =>
    /\ call.results[1].t # "throw"
    /\ LET p == call.results[1].requestJson
           out == call.results[1].insights
       IN /\ DerivedFields(p, out)
          /\ IF Field(p, "model").t # "absent"
               THEN Present(out, "anthropic.model")
                    /\ out["anthropic.model"] = Field(p, "model")
               ELSE ~Present(out, "anthropic.model")

C20_Witness ==
  /\ InsightsDone
  /\ call.results[1].t = "insights"
  /\ Field(call.results[1].requestJson, "messages") = Arr(<<Null, Num(1)>>)
  /\ Field(call.results[1].requestJson, "tools").t = "null"
  /\ Field(call.results[1].requestJson, "system").t = "arr"
  /\ call.results[1].insights["anthropic.messages.count"] = Num(2)
  /\ ~Present(call.results[1].insights, "anthropic.tools.count")
  /\ Present(call.results[1].insights, "anthropic.system.count")

\* C11: whatever the chunks of the source and however the two readers take
\* turns, the bytes read from the client stream and the bytes read from the
\* inspection stream, each read to its end, are the bytes of the source.
C11_TeeEquality ==
  /\ IsPrefix(tee.clientGot, tee.all)
  /\ IsPrefix(tee.inspectGot, tee.all)
  /\ tee.clientDone => tee.clientGot = tee.all
  /\ tee.inspectDone => tee.inspectGot = tee.all

C11_Witness ==
  /\ tee.clientDone
  /\ tee.inspectDone
  /\ Len(tee.all) = MaxBytes
  /\ tee.clientGot = tee.all
  /\ tee.inspectGot = tee.all

RecordsOf(action) == SelectSeq(enqueued, LAMBDA rec : rec.action = action)

HasContent(text) == \E i \in DOMAIN text : text[i] \notin Whitespace

\* the frames of a text that end with LF LF or CRLF CRLF and are not empty
RECURSIVE StatedFrameCount(_, _, _)
StatedFrameCount(text, i, content) ==
  IF i > Len(text) THEN 0
  ELSE IF <<At(text, i), At(text, i + 1), At(text, i + 2), At(text, i + 3)>>
            = <<"\r", "\n", "\r", "\n">>
    THEN (IF content THEN 1 ELSE 0) + StatedFrameCount(text, i + 4, FALSE)
  ELSE IF <<At(text, i), At(text, i + 1)>> = <<"\n", "\n">>
    THEN (IF content THEN 1 ELSE 0) + StatedFrameCount(text, i + 2, FALSE)
  ELSE StatedFrameCount(text, i + 1, content \/ text[i] \notin Whitespace)

\* the lines of a text that end with LF, each without its LF
RECURSIVE EndedLines(_, _, _)
EndedLines(text, i, line) ==
  IF i > Len(text) THEN <<>>
  ELSE IF text[i] = "\n" THEN <<line>> \o EndedLines(text, i + 1, <<>>)
  ELSE EndedLines(text, i + 1, Append(line, text[i]))

\* a line without the CR that ends it
Chomp(line) ==
  IF line # <<>> /\ line[Len(line)] = "\r" THEN SubSeq(line, 1, Len(line) - 1) ELSE line

\* the frames that a blank line ends (a line that is empty once its LF or CRLF
\* is taken away) and that are not white space only
RECURSIVE BlankLineFrameCount(_, _)
BlankLineFrameCount(lines, content) ==
  IF lines = <<>> THEN 0
  ELSE IF Chomp(Head(lines)) = <<>>
    THEN (IF content THEN 1 ELSE 0) + BlankLineFrameCount(Tail(lines), FALSE)
  ELSE BlankLineFrameCount(Tail(lines), content \/ HasContent(Head(lines)))

\* C13 as stated: when the stream has ended, the number of sse_event records is
\* the number of non-empty frames of the input that LF LF or CRLF CRLF ends; a
\* last frame that no blank line ends gives no record.
C13_FrameCountLfLfOrCrLfCrLf ==
  sse.pc = "done" =>
    Len(RecordsOf("sse_event")) = StatedFrameCount(sse.whole, 1, FALSE)

\* C13 amended: the same, a blank line being two line ends in a row, each of
\* them LF or CRLF, and a frame being empty when it is white space only.
C13_FrameCount ==
  sse.pc = "done" =>
    /\ Len(RecordsOf("sse_event")) = BlankLineFrameCount(EndedLines(sse.whole, 1, <<>>), FALSE)
    /\ sse.sequence = Len(RecordsOf("sse_event"))

C13_Witness ==
  /\ sse.pc = "done"
  /\ sse.whole = <<"a", "\n", "\r", "\n", "a">>
  /\ Len(RecordsOf("sse_event")) = 1

\* the values of the lines of the given kind, in order
ValuesOf(lines, kind) ==
  LET ls == SelectSeq(lines, LAMBDA line : line.kind = kind)
  IN [i \in DOMAIN ls |-> ls[i].value]

RECURSIVE WithNewlines(_)
WithNewlines(values) ==
  IF values = <<>> THEN <<>>
  ELSE IF Tail(values) = <<>> THEN Head(values)
  ELSE Head(values) \o <<"\n">> \o WithNewlines(Tail(values))

\* the name the event lines give: the value of the last, message when there is
\* none or it is empty
NameOf(lines) ==
  LET names == ValuesOf(lines, "event")
  IN IF names = <<>> THEN <<Message>>
     ELSE IF names[Len(names)] = <<>> THEN <<Message>>
     ELSE names[Len(names)]

\* C14: the payload of a frame is the contents of its data lines, in order,
\* joined with a newline (the white space that follows the colon is not part of
\* the contents); comment lines add nothing; the event name is the value of the
\* event line, and message when the frame has none or an empty one.
C14_FrameParsing ==
  (sse.pc = "done" /\ sse.kind = "frames") =>
    /\ Len(RecordsOf("sse_event")) = Len(sse.frames)
    /\ \A i \in DOMAIN sse.frames :
         /\ RecordsOf("sse_event")[i].fields["sse.data"]
              = WithNewlines(ValuesOf(sse.frames[i], "data"))
         /\ RecordsOf("sse_event")[i].fields["sse.event"] = NameOf(sse.frames[i])

C14_Witness ==
  /\ sse.pc = "done"
  /\ sse.kind = "frames"
  /\ sse.frames = << << [kind |-> "data", sep |-> <<" ">>, value |-> <<"b">>],
                        [kind |-> "comment", sep |-> <<>>, value |-> <<"a">>],
                        [kind |-> "data", sep |-> <<>>, value |-> <<"a">>] >> >>
  /\ sse.whole[Len(sse.whole)] = "\n"
  /\ sse.whole[Len(sse.whole) - 1] = "\r"
  /\ RecordsOf("sse_event")[1].fields["sse.data"] = <<"b", "\n", "a">>
  /\ RecordsOf("sse_event")[1].fields["sse.event"] = <<Message>>

\* the positions in enqueued of the records of the given action
PositionsOf(action) == {i \in DOMAIN enqueued : enqueued[i].action = action}

\* C15: when the stream has ended, one sse_summary record has been enqueued,
\* after every sse_event record; it carries the number of frames, the number of
\* bytes of the stream, the token counters and the count of each event name. A
\* message_delta frame with usage.output_tokens 5 and a frame that ends the
\* stream give output tokens 5 and the count 1 for message_delta.
C15_SseSummary ==
  sse.pc = "done" =>
    /\ Cardinality(PositionsOf("sse_summary")) = 1
    /\ \A i \in PositionsOf("sse_event"), j \in PositionsOf("sse_summary") : i < j
    /\ \A j \in PositionsOf("sse_summary") :
         LET f == enqueued[j].fields
         IN /\ {"sse.event_count", "usage.input_tokens", "usage.output_tokens",
                "sse.type_counts"} \subseteq DOMAIN f
            /\ f["sse.event_count"] = Len(RecordsOf("sse_event"))
            /\ f["usage.input_tokens"] = sse.usage.input
            /\ f["usage.output_tokens"] = sse.usage.output
            /\ \A name \in DOMAIN f["sse.type_counts"] :
                 f["sse.type_counts"][name]
                   = Len(SelectSeq(RecordsOf("sse_event"),
                                   LAMBDA rec : rec.fields["sse.event"] = name))
            /\ (sse.frames = << <<EventLine(MessageDelta), DataLine(JsonOut5)>>,
                                <<EventLine(Ping), DataLine("a")>> >>)
                 => (f["usage.output_tokens"] = 5
                     /\ f["sse.type_counts"][<<MessageDelta>>] = 1)
            /\ "sse.stream.bytes" \in DOMAIN f
            /\ f["sse.stream.bytes"] = ByteLength(sse.whole)

\* the steps of the export: the timer callback, the answers of the sink and the
\* resumption of flushAxiom
ExportOps == {"timer", "create_ok", "create_fail", "ingest_send", "ingest_ok", "ingest_fail"}

\* C21: no step of an export, failed or not, changes the state of a request
\* handler; every log call of a handler has queued its record by the end of the
\* step that makes it, whatever the state of the sink; and a request ends with the
\* upstream reply relayed, or 502 after a transport failure, unless an archive
\* write failed: an export that fails never makes a handler reject.
C21_ExportFailureContained ==
  /\ [][last'.op \in ExportOps => req' = req]_vars
  /\ [][\A r \in Requests :
          (AXIOM_ENABLED /\ req'[r] # req[r])
            => Len(enqueued') - Len(enqueued)
                 = Len(req'[r].emitted) - Len(req[r].emitted)]_vars
  /\ [](\A r \in Requests :
          req[r].pc = "done"
            => (/\ req[r].response = "server_error" => req[r].archiveFailed
                /\ (req[r].reply \in Replies /\ ~req[r].archiveFailed)
                     => req[r].response = "upstream"
                /\ (req[r].reply = "rejected" /\ ~req[r].archiveFailed)
                     => req[r].response = "bad_gateway"))

C21_Witness ==
  /\ exportFailed
  /\ last.op = "request"
  /\ req[1].pc = "done"
  /\ req[1].response = "upstream"
  /\ Count(1, "request_rollup") = 1

\* C22: at most one setTimeout callback is scheduled, and the handle is set
\* exactly when one is; an enqueue that leaves the buffer under the batch size
\* schedules a callback when the handle is null and none otherwise; the callback
\* clears the handle when it runs.
C22_OneFlushTimer ==
  /\ [](pendingTimers <= 1 /\ (axiomFlushTimer <=> pendingTimers = 1))
  /\ [][(EnqueueStep /\ Len(axiomQueue) + 1 < AXIOM_BATCH_SIZE)
         => (/\ axiomFlushTimer'
             /\ pendingTimers' = IF axiomFlushTimer THEN pendingTimers
                                  ELSE pendingTimers + 1)]_vars
  /\ [][pendingTimers' < pendingTimers => ~axiomFlushTimer']_vars

C22_Witness ==
  /\ last.op = "log"
  /\ ~last.sizeTrigger
  /\ Len(axiomQueue) = 2
  /\ axiomFlushTimer
  /\ pendingTimers = 1

\* event.action of the records that carry the trace id of request r, in the
\* order they were queued
TraceActions(r) ==
  LET own == SelectSeq(enqueued, LAMBDA rec : rec.trace = r)
  IN [i \in DOMAIN own |-> own[i].action]

\* C23 as stated: every record on the queue carries a timestamp and the trace id
\* of a request.
C23_TraceTagging ==
  \A i \in DOMAIN enqueued :
    /\ enqueued[i].ts \in 1..logged
    /\ enqueued[i].trace \in Requests

\* C23 amended: every record on the queue carries a timestamp; the records that
\* carry the trace id of a request are the records its handler and its capture
\* task logged, in that order; the only record with no trace id is proxy_started,
\* the first record, which no request owns.
C23_RequestTraceTagging ==
  /\ \A i \in DOMAIN enqueued :
       /\ enqueued[i].ts \in 1..logged
       /\ enqueued[i].trace = NoTrace <=> enqueued[i].action = "proxy_started"
       /\ enqueued[i].trace = NoTrace <=> i = 1
  /\ \A r \in Requests : AXIOM_ENABLED => TraceActions(r) = req[r].emitted

C23_Witness ==
  /\ AXIOM_ENABLED
  /\ Settled(1)
  /\ Count(1, "request_rollup") = 1
  /\ Len(req[1].emitted) >= 4
  /\ Len(enqueued) = Len(req[1].emitted) + 1

\* the records a request logs, from what it was sent and what the upstream call
\* and the inspection stream did
ExpectedEmitted(q) ==
  <<"request_received">> \o Repeat("request_tool", q.tools)
  \o CASE q.reply = "rejected" -> <<"proxy_request", "request_rollup">>
        [] q.reply = "no_body" -> <<"response_headers">>
        [] q.reply = "plain" ->
             <<"response_headers", "request_rollup">>
             \o (IF q.inspect = "done" THEN <<"response_body">> ELSE <<>>)
        [] q.reply = "sse" ->
             <<"response_headers">> \o Repeat("sse_event", q.frames)
             \o (IF q.inspect = "done" THEN <<"sse_summary", "request_rollup">>
                  ELSE <<>>)

\* C24: the response and the records of a request no archive write of which
\* failed are given by the request, the upstream reply and the inspection stream
\* alone: they are the same with the archive disabled as with the archive
\* enabled and every write succeeding.
C24_ArchiveInvisible ==
  \A r \in Requests :
    (Settled(r) /\ ~req[r].archiveFailed)
      => (/\ req[r].response = IF req[r].reply = "rejected" THEN "bad_gateway"
                               ELSE "upstream"
          /\ req[r].emitted = ExpectedEmitted(req[r]))

C24_Witness ==
  /\ ~ARCHIVE_ENABLED
  /\ Settled(1)
  /\ req[1].reply = "plain"
  /\ req[1].inspect = "done"
  /\ req[1].tools = 1

\* the steps that end an export attempt
FinishOps == {"create_fail", "ingest_ok", "ingest_fail"}

\* C25: the step that ends an export attempt, accepted or failed (the batch is
\* then back in front of the buffer), starts the next attempt with the front of
\* the buffer when the buffer is not empty, and touches no timer; when the buffer
\* is empty no export is in flight after it.
C25_DrainAfterAttempt ==
  [][(last'.op \in FinishOps /\ flights # <<>>)
       => LET buffer == IF last'.op = "ingest_ok" THEN axiomQueue
                        ELSE flights[1].batch \o axiomQueue
              n == Min(AXIOM_BATCH_SIZE, Len(buffer))
          IN /\ UNCHANGED <<axiomFlushTimer, pendingTimers, enqueued>>
             /\ IF buffer = <<>>
                  THEN ~axiomFlushInFlight' /\ flights' = <<>>
                  ELSE /\ axiomFlushInFlight'
                       /\ Len(flights') = 1
                       /\ flights'[1].batch = SubSeq(buffer, 1, n)
                       /\ flights'[1].pc \in {"create", "ensured"}
                       /\ axiomQueue' = SubSeq(buffer, n + 1, Len(buffer))]_vars

C25_Witness ==
  /\ last.op = "ingest_ok"
  /\ exported # <<>>
  /\ axiomFlushInFlight
  /\ Len(flights) = 1
  /\ flights[1].pc \in {"create", "ensured"}

\* C26: flushAxiom called while an export is in flight or the buffer is empty
\* changes nothing: not the buffer, the flag, the handle, axiomDatasetEnsured,
\* and no request is sent. So for the timer callback (which clears the handle
\* before the call) and for the enqueue that reaches the batch size.
C26_ExportNoOp ==
  /\ []((axiomFlushInFlight \/ axiomQueue = <<>>)
          => FlushAxiom(AxState, AXIOM_ENABLED, AXIOM_BATCH_SIZE,
                        AXIOM_AUTO_CREATE_DATASET) = AxState)
  /\ [][(pendingTimers' < pendingTimers /\ (axiomFlushInFlight \/ axiomQueue = <<>>))
         => (/\ UNCHANGED <<axiomQueue, axiomFlushInFlight, axiomDatasetEnsured,
                            flights, exported>>
             /\ ~last'.createSent)]_vars
  /\ [][(EnqueueStep /\ axiomFlushInFlight /\ Len(axiomQueue) + 1 >= AXIOM_BATCH_SIZE)
         => (/\ axiomQueue' = Append(axiomQueue, enqueued'[Len(enqueued')])
             /\ UNCHANGED <<axiomFlushInFlight, axiomFlushTimer, pendingTimers,
                            axiomDatasetEnsured, flights, exported>>
             /\ ~last'.createSent)]_vars

C26_Witness ==
  /\ AXIOM_ENABLED
  /\ last.op = "timer"
  /\ axiomQueue = <<>>
  /\ ~axiomFlushInFlight
  /\ flights = <<>>

\* C27: the batch of an export attempt is the first min(B, length) records of the
\* buffer as it is when the attempt starts, in order; it stays the same until the
\* attempt ends, so the ingest request carries it; it has at least one record
\* and at most B.
C27_BatchShape ==
  /\ [](\A i \in DOMAIN flights :
          Len(flights[i].batch) \in 1..AXIOM_BATCH_SIZE)
  /\ [][(flights' # <<>> /\ (flights = <<>> \/ last'.op \in FinishOps))
         => LET atStart ==
                  CASE last'.op = "log" ->
                         Append(axiomQueue, enqueued'[Len(enqueued')])
                    [] last'.op \in {"create_fail", "ingest_fail"} ->
                         flights[1].batch \o axiomQueue
                    [] OTHER -> axiomQueue
            IN flights'[1].batch
                 = SubSeq(atStart, 1, Min(AXIOM_BATCH_SIZE, Len(atStart)))]_vars
  /\ [][(flights # <<>> /\ last'.op \notin FinishOps)
         => (flights' # <<>> /\ flights'[1].batch = flights[1].batch)]_vars

C27_Witness ==
  /\ AXIOM_BATCH_SIZE = 3
  /\ flights # <<>>
  /\ flights[1].pc = "ingest"
  /\ Len(flights[1].batch) = 2
  /\ axiomQueue = <<>>

\* C28: when the create request is answered 409, axiomDatasetEnsured becomes
\* true, the attempt goes on with its batch (nothing is put back on the buffer,
\* no failure is recorded), and the next thing the attempt does is send the
\* ingest request.
C28_ConflictIsSuccess ==
  /\ [][(flights # <<>> /\ flights[1].pc = "create" /\ last'.answer = 409)
         => (/\ axiomDatasetEnsured'
             /\ flights' = [flights EXCEPT ![1].pc = "ensured"]
             /\ UNCHANGED <<axiomQueue, exportFailed, exported>>)]_vars
  /\ [][(flights # <<>> /\ flights[1].pc = "ensured" /\ flights' # flights)
         => flights' = [flights EXCEPT ![1].pc = "ingest"]]_vars

C28_Witness ==
  /\ last.op = "create_ok"
  /\ last.answer = 409
  /\ axiomDatasetEnsured
  /\ flights # <<>>
  /\ flights[1].pc = "ensured"

\* C29 as stated: after an ingest request answered 404 the batch is back in front
\* of the buffer, axiomDatasetEnsured is false, and the export attempt that
\* follows (it starts at once) has sent the create request.
C29_NotFoundRecovery ==
  last.answer = 404
    => (/\ ~axiomDatasetEnsured
        /\ Len(flights) = 1
        /\ enqueued = exported \o flights[1].batch \o axiomQueue
        /\ flights[1].pc = "create"
        /\ last.createSent)

\* C29 amended: as above, but the attempt that follows sends the create request
\* when AXIOM_AUTO_CREATE_DATASET is set, and then sends its ingest request only
\* after the create request is answered; when it is not set the attempt sends no
\* create request and goes on to its ingest request.
C29_NotFoundRecoveryAutoCreate ==
  /\ [](last.answer = 404
          => (/\ ~axiomDatasetEnsured
              /\ Len(flights) = 1
              /\ enqueued = exported \o flights[1].batch \o axiomQueue
              /\ flights[1].pc = IF AXIOM_AUTO_CREATE_DATASET THEN "create"
                                 ELSE "ensured"
              /\ last.createSent = AXIOM_AUTO_CREATE_DATASET))
  /\ [][(flights # <<>> /\ flights[1].pc = "create" /\ flights' # flights
          /\ last'.op \notin FinishOps)
         => (last'.op = "create_ok" /\ flights' = [flights EXCEPT ![1].pc = "ensured"])]_vars

C29_Witness ==
  /\ last.answer = 404
  /\ AXIOM_AUTO_CREATE_DATASET
  /\ exported # <<>>
  /\ flights[1].pc = "create"
  /\ last.createSent

\* C30: the k-th sse_event record of a stream carries the sequence number k.
C30_SseSequence ==
  \A k \in DOMAIN RecordsOf("sse_event") :
    /\ "event.sequence" \in DOMAIN RecordsOf("sse_event")[k].fields
    /\ RecordsOf("sse_event")[k].fields["event.sequence"] = k

\* the event name a frame of UsageFrames states, and the JSON text of its data
FrameEvent(f) == IF f[1].kind = "event" THEN f[1].value[1] ELSE Message
FrameJson(f) == f[Len(f)].value[1]

\* the JSON texts with a usage object, and the number each gives for a field
\* (-1 when the field is missing or is no number)
WithUsage == {JsonOut5, JsonIn7Out2, JsonOut0, JsonUsageText}
GivenTokens(json, field) ==
  CASE json = JsonOut5 /\ field = "output" -> 5
    [] json = JsonIn7Out2 /\ field = "input" -> 7
    [] json = JsonIn7Out2 /\ field = "output" -> 2
    [] json = JsonOut0 /\ field = "output" -> 0
    [] OTHER -> -1

\* the token counters the claim states after these frames
RECURSIVE StatedUsage(_, _)
StatedUsage(frames, usage) ==
  IF frames = <<>> THEN usage
  ELSE LET f == Head(frames)
           next(field) ==
             IF FrameEvent(f) = MessageDelta /\ FrameJson(f) \in WithUsage
                /\ GivenTokens(FrameJson(f), field) >= 0
               THEN GivenTokens(FrameJson(f), field)
               ELSE usage[field]
       IN StatedUsage(Tail(frames), [input |-> next("input"), output |-> next("output")])

\* C31: when a stream of frames that report usage has ended, each token counter
\* is the number given by the last message_delta frame whose usage object has
\* the field as a number, 0 when there is none: a value is never added to the
\* one before, and the other frames change nothing.
C31_LastSeenWins ==
  (sse.pc = "done" /\ sse.kind = "frames"
   /\ \A i \in DOMAIN sse.frames : sse.frames[i] \in UsageFrames)
    => sse.usage = StatedUsage(sse.frames, [input |-> 0, output |-> 0])

\* the totals of a stream that the summary and the rollup both state
StreamTotals == {"sse.event_count", "sse.stream.bytes", "usage.input_tokens",
                 "usage.output_tokens", "sse.type_counts"}

\* C32: when an event stream has ended, one request_rollup record has been
\* enqueued after the one sse_summary record, which comes after every sse_event
\* record of the stream; the rollup carries the frame count, the byte count, the
\* token counters and the count of each event name, each equal to the
\* summary's.
C32_SseCompletionOrder ==
  sse.pc = "done" =>
    /\ Cardinality(PositionsOf("sse_summary")) = 1
    /\ Cardinality(PositionsOf("request_rollup")) = 1
    /\ \A i \in PositionsOf("sse_event"), j \in PositionsOf("sse_summary") : i < j
    /\ \A j \in PositionsOf("sse_summary"), k \in PositionsOf("request_rollup") :
         /\ j < k
         /\ \A total \in StreamTotals :
              /\ total \in DOMAIN enqueued[k].fields
              /\ total \in DOMAIN enqueued[j].fields
              /\ enqueued[k].fields[total] = enqueued[j].fields[total]

\* the sum of the counts of a table of counts
RECURSIVE SumCounts(_)
SumCounts(counts) ==
  IF DOMAIN counts = {} THEN 0
  ELSE LET name == CHOOSE n \in DOMAIN counts : TRUE
       IN counts[name] + SumCounts([n \in DOMAIN counts \ {name} |-> counts[n]])

\* C38: at every point of an event stream the counts per event name sum to the
\* number of frames emitted so far, which is the last sequence number given;
\* the counts of the summary record sum to its frame count.
C38_TypeCountsAddUp ==
  sse.pc # "none" =>
    /\ SumCounts(sse.typeCount) = Len(RecordsOf("sse_event"))
    /\ sse.sequence = Len(RecordsOf("sse_event"))
    /\ \A j \in PositionsOf("sse_summary") :
         /\ SumCounts(enqueued[j].fields["sse.type_counts"])
              = enqueued[j].fields["sse.event_count"]
         /\ enqueued[j].fields["sse.event_count"] = Len(RecordsOf("sse_event"))

C38_Witness ==
  /\ sse.pc = "done"
  /\ Len(RecordsOf("sse_event")) = 3
  /\ Cardinality(DOMAIN sse.typeCount) = 2
  /\ PositionsOf("sse_summary") # {}

\* the frames of a chunk run to their end, no step of another task between
RECURSIVE DrainFrames(_)
DrainFrames(r) ==
  IF r.sse.pc = "append" THEN DrainFrames(RunFrames(r.sse, r.ax, r.sse.pending)) ELSE r

\* the stream of this state read as one chunk, from the start of the proxy: the
\* decoder's state at the end, and the records enqueued with the summary and the
\* rollup
OneChunk ==
  LET pieces == SplitFrames(sse.whole, 1, <<>>)
      start == [sse EXCEPT !.pc = "reading", !.input = <<>>, !.pending = <<>>,
                           !.buffer = pieces[Len(pieces)], !.sequence = 0,
                           !.sseBytes = ByteLength(sse.whole), !.typeCount = <<>>,
                           !.usage = [input |-> 0, output |-> 0]]
      began == Log(EmptyAx, [trace |-> NoTrace, action |-> "proxy_started"])
      run == DrainFrames(RunFrames(start, began, SubSeq(pieces, 1, Len(pieces) - 1)))
  IN [sse |-> run.sse,
      enqueued |-> Log(Log(run.ax, [trace |-> 1, action |-> "sse_summary",
                                    fields |-> SseTotals(run.sse)]),
                       [trace |-> 1, action |-> "request_rollup",
                        fields |-> SseTotals(run.sse)]).enqueued]

\* C37: when a stream has ended, whatever the chunks it came in (a chunk may
\* end inside a frame, between the two line ends of a blank line, between a CR
\* and its LF), the records enqueued are those of the stream read as one chunk:
\* the same frames in the same order with the same event names, ids and
\* payloads, and the same summary; the decoder's sequence number, byte count,
\* counts per event name and token counters are the same too.
C37_ChunkingIndependence ==
  sse.pc = "done" =>
    /\ enqueued = OneChunk.enqueued
    /\ sse.sequence = OneChunk.sse.sequence
    /\ sse.sseBytes = OneChunk.sse.sseBytes
    /\ sse.typeCount = OneChunk.sse.typeCount
    /\ sse.usage = OneChunk.sse.usage

C37_Witness ==
  /\ sse.pc = "done"
  /\ sse.cutInCrLf
  /\ sse.kind = "frames"
  /\ Len(sse.frames[1]) = 2
  /\ Len(RecordsOf("sse_event")) = 1
  /\ RecordsOf("sse_event")[1].fields["sse.data"] = <<"a", "\n", "b">>
  /\ enqueued = OneChunk.enqueued

\* C36: with the sink configured, in every state between steps, a buffer that
\* is not empty has an export in flight or a flush timer pending: no sequence
\* of enqueues, timer callbacks and export answers leaves records waiting with
\* nothing scheduled to export them.
C36_NoStrandedRecords ==
  (AXIOM_ENABLED /\ axiomQueue # <<>>)
    => \/ axiomFlushInFlight /\ flights # <<>>
       \/ axiomFlushTimer /\ pendingTimers > 0

C36_Witness ==
  /\ AXIOM_ENABLED
  /\ last.op = "ingest_fail"
  /\ axiomQueue # <<>>
  /\ axiomFlushInFlight
  /\ ~axiomFlushTimer
  /\ pendingTimers = 0

\* C39: the step in which the create request of an export attempt rejects, or
\* is answered with a status that is neither a success nor 409, sends no ingest
\* request and exports nothing; axiomDatasetEnsured stays false; the batch is
\* back in front of the buffer once (batch and buffer, in order, are what the
\* buffer and the next attempt hold); the in-flight flag is cleared, so that the
\* next attempt, which the guard of flushAxiom lets start only with the flag
\* clear, starts with the front of that buffer and its own create request.
C39_CreateFailure ==
  [][(last'.op = "create_fail" /\ flights # <<>>)
       => LET buffer == flights[1].batch \o axiomQueue
              n == Min(AXIOM_BATCH_SIZE, Len(buffer))
          IN /\ flights[1].pc = "create"
             /\ ~axiomDatasetEnsured /\ ~axiomDatasetEnsured'
             /\ exported' = exported
             /\ exportFailed'
             /\ Len(flights') = 1
             /\ flights'[1].pc = "create"
             /\ flights'[1].batch = SubSeq(buffer, 1, n)
             /\ axiomQueue' = SubSeq(buffer, n + 1, Len(buffer))
             /\ last'.createSent
             /\ UNCHANGED <<axiomFlushTimer, pendingTimers, enqueued>>]_vars

C39_Witness ==
  /\ last.op = "create_fail"
  /\ last.answer = 500
  /\ last.late
  /\ Len(flights) = 1
  /\ flights[1].pc = "create"
  /\ ~axiomDatasetEnsured
  /\ exported = <<>>
  /\ axiomQueue # <<>>

\* C40: when the sink is not configured (no token or no dataset), in every
\* state the buffer is empty, no flush timer is scheduled, the in-flight flag
\* is clear, no request to the sink is under way or was sent, and no record was
\* ever placed on the buffer: enqueue discards each record.
C40_UnconfiguredSink ==
  ~AXIOM_ENABLED =>
    /\ axiomQueue = <<>>
    /\ enqueued = <<>>
    /\ ~axiomFlushTimer
    /\ pendingTimers = 0
    /\ ~axiomFlushInFlight
    /\ flights = <<>>
    /\ exported = <<>>
    /\ ~axiomDatasetEnsured
    /\ last.creates = 0
    /\ ~exportFailed

C40_Witness ==
  /\ ~AXIOM_ENABLED
  /\ last.op = "log"
  /\ logged = MaxLog
  /\ axiomQueue = <<>>
  /\ pendingTimers = 0

\* C35: no step of the pipeline waits for an archive write: in every state in
\* which a write of the archive is under way, the step that follows it in the
\* handler has been taken already - the upstream call is issued while the two
\* request artifacts are written, request_rollup of a buffered reply is logged
\* while response.meta.json is written, response_body is logged while
\* response.body is written.
C35_ArchiveImposesNoOrder ==
  \A r \in Requests :
    ARCHIVE_ENABLED =>
      /\ req[r].pc \in {"archive_body", "archive_meta"} => req[r].upstreamCalls = 1
      /\ (req[r].pc = "archive_response_meta" /\ req[r].reply = "plain")
           => Count(r, "request_rollup") = 1
      /\ req[r].inspect = "archive_response_body"
           => Count(r, "response_body") = 1

\* the handler has reached its upstream fetch: its steps since request_received
StepsDone == call.fn = "requestInsights" /\ Len(call.results) = 2

\* the request_tool log calls among the steps, and the positions of the steps
\* of a kind
ToolSteps(steps) == SelectSeq(steps, LAMBDA s : s.action = "request_tool")
StepPositions(steps, action) == {i \in DOMAIN steps : steps[i].action = action}

\* the entries of a tools array that are objects (arrays are), by position
IsToolObject(x) == x.t \in {"obj", "arr"}
ToolPositions(tl) == SelectSeq([i \in DOMAIN tl |-> i], LAMBDA i : IsToolObject(tl[i]))

StatedPreview(text) ==
  IF Len(CollapseWhitespace(text)) <= PreviewMax THEN CollapseWhitespace(text)
  ELSE Append(SubSeq(CollapseWhitespace(text), 1, PreviewMax), "...")

\* C34: prompt.preview is the text of the first text block of the first user
\* message with every run of white space collapsed to one space, cut to
\* PreviewMax characters with an ellipsis appended when the collapsed text is
\* longer; its length never exceeds PreviewMax plus the marker.
C34_PreviewBounded ==
  (InsightsDone /\ call.results[1].t = "insights"
   /\ Present(call.results[1].insights, "prompt.preview"))
    => /\ Len(call.results[1].insights["prompt.preview"].v) <= PreviewMax + 1
       /\ \A i \in DOMAIN Field(call.results[1].requestJson, "messages").v :
            LET m == Field(call.results[1].requestJson, "messages").v[i]
            IN (IsUserMessage(m) = "true" /\ Field(m, "content").t = "arr")
                 => \A j \in DOMAIN Field(m, "content").v :
                      LET c == Field(m, "content").v[j]
                      IN (IsTextBlock(c) = "true" /\ Field(c, "text").t = "str")
                           => call.results[1].insights["prompt.preview"]
                                = Str(StatedPreview(Field(c, "text").v))

====
